---- MODULE Spec2Model ----
(***************************************************************************)
(* Model of revenium-middleware-runway-go: the task-completion poller      *)
(* (RunwayClient.WaitForTaskCompletion), the orchestrator                  *)
(* (ReveniumRunway.ImageToVideo / VideoToVideo / UpscaleVideo / Flush) and *)
(* the metering dispatcher (MeteringClient.sendWithRetry, run by the       *)
(* dispatch unit ReveniumRunway.sendMetering).                             *)
(*                                                                         *)
(* Durations are integers in milliseconds.  Go keeps a time.Duration in    *)
(* nanoseconds and truncates float64(interval) * 1.5 toward zero; every    *)
(* policy used here is a multiple of 1 ms whose backoff sequence stays     *)
(* integral in milliseconds until it is capped, so the millisecond values  *)
(* are exact.                                                              *)
(***************************************************************************)
EXTENDS Integers, Sequences, FiniteSets, TLC

(***************************************************************************)
(* Bounds of the model.                                                    *)
(***************************************************************************)
MaxPrefixLen == 2
MaxSmallAttempts == 3
MaxCalls == 2
MaxCancelStep == 2
MaxSendPrefix == 3

(***************************************************************************)
(* Task statuses (types.go) and what one status lookup can yield.          *)
(***************************************************************************)
TaskStatusPending == "PENDING"
TaskStatusRunning == "RUNNING"
TaskStatusSucceeded == "SUCCEEDED"
TaskStatusFailed == "FAILED"
TaskStatusCanceled == "CANCELED"

TerminalStatuses == {TaskStatusSucceeded, TaskStatusFailed, TaskStatusCanceled}
NonTerminalStatuses == {TaskStatusPending, TaskStatusRunning}
TaskStatuses == NonTerminalStatuses \cup TerminalStatuses

\* GetTaskStatus returns (nil, err) when newRequest or doRequest fails.
LookupFailed == "LOOKUP_FAILED"
SourceResponses == TaskStatuses \cup {LookupFailed}

Nil == "nil"

(***************************************************************************)
(* Errors.  A ReveniumError is identified by its ErrorType and the message *)
(* template; ctx.Err() is the context package's own error value.           *)
(***************************************************************************)
ErrorTypeTask == "TASK_ERROR"
ErrorTypeProvider == "PROVIDER_ERROR"
ErrorTypeNetwork == "NETWORK_ERROR"
ErrorTypeMetering == "METERING_ERROR"
ErrorTypeValidation == "VALIDATION_ERROR"

NewTaskError(message) == [type |-> ErrorTypeTask, msg |-> message]
NewProviderError(message) == [type |-> ErrorTypeProvider, msg |-> message]
NewNetworkError(message) == [type |-> ErrorTypeNetwork, msg |-> message]
CtxErr == [type |-> "context", msg |-> "context canceled"]
NoError == [type |-> Nil, msg |-> Nil]

ErrPollTimeout == NewTaskError("task polling timeout")
ErrMaxAttempts == NewTaskError("max polling attempts exceeded")
\* Lines 110-115: the message of the FAILED error wraps the Error field of
\* the status response, or a placeholder when the field is nil.
ErrTaskFailed(providerError) ==
    NewTaskError("task failed: " \o
        (IF providerError = Nil THEN "unknown error" ELSE providerError))
ErrTaskCanceled == NewTaskError("task was canceled")

IsTaskError(err) == err.type = ErrorTypeTask

\* A metering error keeps the error it wraps (ReveniumError.Err).
NewMeteringError(message, err) ==
    [type |-> ErrorTypeMetering, msg |-> message, cause |-> err]
NewValidationError(message) == [type |-> ErrorTypeValidation, msg |-> message]
ErrorTypeConfig == "CONFIG_ERROR"
NewConfigError(message) == [type |-> ErrorTypeConfig, msg |-> message]
IsValidationError(err) == err.type = ErrorTypeValidation

(***************************************************************************)
(* Polling policies.                                                       *)
(***************************************************************************)
DefaultPollingConfig ==
    [MaxAttempts |-> 120, InitialInterval |-> 2000,
     MaxInterval |-> 10000, Timeout |-> 1200000]

\* The custom policy of the README ("Custom Polling Configuration").
ReadmePollingConfig ==
    [MaxAttempts |-> 60, InitialInterval |-> 3000,
     MaxInterval |-> 15000, Timeout |-> 600000]

\* The default policy with a small attempt budget.
SmallPollingConfig(n) == [DefaultPollingConfig EXCEPT !.MaxAttempts = n]

NilPollingConfig == [MaxAttempts |-> -1, InitialInterval |-> -1,
                     MaxInterval |-> -1, Timeout |-> -1]

\* Two policies a caller may pass (PollingConfig is not validated): a
\* timeout shorter than two sleeps, and an initial interval above the cap.
TightPollingConfig ==
    [SmallPollingConfig(MaxSmallAttempts) EXCEPT !.Timeout = 4000]
InvertedPollingConfig ==
    [SmallPollingConfig(MaxSmallAttempts) EXCEPT !.InitialInterval = 10000,
                                                 !.MaxInterval = 2000]

PollingInputs ==
    {NilPollingConfig, ReadmePollingConfig, TightPollingConfig,
     InvertedPollingConfig}
        \cup {SmallPollingConfig(n) : n \in 0..MaxSmallAttempts}

\* Per-lookup latency of the status source: negligible, or a quarter second.
SlowLookup == 250
Latencies == {0, SlowLookup}

RECURSIVE SeqsUpTo(_, _)
SeqsUpTo(S, n) ==
    IF n = 0 THEN {<<>>}
    ELSE LET shorter == SeqsUpTo(S, n - 1)
         IN  shorter \cup {Append(s, x) : s \in shorter, x \in S}

\* A status source is a script of responses; past its end it keeps
\* answering with its last response.  A script is a prefix of responses
\* that let the loop continue, followed by one final response.
ContinuingResponses == NonTerminalStatuses \cup {LookupFailed}
FinalResponses == {TaskStatusRunning, LookupFailed} \cup TerminalStatuses
Scripts ==
    {Append(pre, f) : pre \in SeqsUpTo(ContinuingResponses, MaxPrefixLen),
                      f \in FinalResponses}

SourceAt(script, n) == IF n <= Len(script) THEN script[n] ELSE script[Len(script)]

\* The Error field of a FAILED status response: nil, or the provider's
\* message.  Only a source that reports FAILED carries one.
ProviderErrors == {Nil, "insufficient credits"}
ProviderErrorsOf(script) ==
    IF script[Len(script)] = TaskStatusFailed THEN ProviderErrors ELSE {Nil}

(***************************************************************************)
(* RunwayClient.WaitForTaskCompletion as a step function on the poller's   *)
(* local state.                                                            *)
(*   pc       position in the loop                                         *)
(*   elapsed  time.Since(startTime)                                        *)
(*   lookups  number of GetTaskStatus calls made so far                    *)
(*   sleeps   number of time.Sleep calls made so far                       *)
(*   providerError   the Error field the source attaches to FAILED         *)
(*   status, err   the returned pair once pc = "done"                      *)
(***************************************************************************)
IdlePoll ==
    [pc |-> "idle", policy |-> NilPollingConfig, script |-> <<Nil>>, lat |-> 0,
     elapsed |-> 0, interval |-> 0, attempts |-> 0, lookups |-> 0,
     sleeps |-> 0, steps |-> 0, providerError |-> Nil, status |-> Nil,
     err |-> NoError]

\* Lines 66-72: nil policy replaced by the default, locals initialised.
PollInit(policy, script, lat) ==
    LET cfg == IF policy = NilPollingConfig THEN DefaultPollingConfig ELSE policy
    IN  [pc |-> "check", policy |-> cfg, script |-> script, lat |-> lat,
         elapsed |-> 0, interval |-> cfg.InitialInterval, attempts |-> 0,
         lookups |-> 0, sleeps |-> 0, steps |-> 0, providerError |-> Nil,
         status |-> Nil, err |-> NoError]

WithProviderError(p, providerError) == [p EXCEPT !.providerError = providerError]

PollReturn(p, status, err) == [p EXCEPT !.pc = "done", !.status = status, !.err = err]

\* Variants of the loop-entry checks: the attempt budget compared with >=,
\* the cancellation check moved in front, the cancellation check left out,
\* the attempt-budget check left out, the timeout reported as the context
\* package's deadline error, the attempt counter never incremented.
LoopEntryNoIncrement(p, ctxDone) ==
    IF p.elapsed > p.policy.Timeout THEN PollReturn(p, Nil, ErrPollTimeout)
    ELSE IF p.attempts > p.policy.MaxAttempts THEN PollReturn(p, Nil, ErrMaxAttempts)
    ELSE IF ctxDone THEN PollReturn(p, Nil, CtxErr)
    ELSE [p EXCEPT !.pc = "lookup"]

LoopEntryNoAttemptCheck(p, ctxDone) ==
    LET q == [p EXCEPT !.attempts = p.attempts + 1]
    IN  IF q.elapsed > q.policy.Timeout THEN PollReturn(q, Nil, ErrPollTimeout)
        ELSE IF ctxDone THEN PollReturn(q, Nil, CtxErr)
        ELSE [q EXCEPT !.pc = "lookup"]

LoopEntryDeadlineError(p, ctxDone) ==
    LET q == [p EXCEPT !.attempts = p.attempts + 1]
    IN  IF q.elapsed > q.policy.Timeout
        THEN PollReturn(q, Nil, [type |-> "context", msg |-> "context deadline exceeded"])
        ELSE IF q.attempts > q.policy.MaxAttempts THEN PollReturn(q, Nil, ErrMaxAttempts)
        ELSE IF ctxDone THEN PollReturn(q, Nil, CtxErr)
        ELSE [q EXCEPT !.pc = "lookup"]

LoopEntryOffByOne(p, ctxDone) ==
    LET q == [p EXCEPT !.attempts = p.attempts + 1]
    IN  IF q.elapsed > q.policy.Timeout THEN PollReturn(q, Nil, ErrPollTimeout)
        ELSE IF q.attempts >= q.policy.MaxAttempts THEN PollReturn(q, Nil, ErrMaxAttempts)
        ELSE IF ctxDone THEN PollReturn(q, Nil, CtxErr)
        ELSE [q EXCEPT !.pc = "lookup"]

LoopEntryCancelFirst(p, ctxDone) ==
    LET q == [p EXCEPT !.attempts = p.attempts + 1]
    IN  IF ctxDone THEN PollReturn(q, Nil, CtxErr)
        ELSE IF q.elapsed > q.policy.Timeout THEN PollReturn(q, Nil, ErrPollTimeout)
        ELSE IF q.attempts > q.policy.MaxAttempts THEN PollReturn(q, Nil, ErrMaxAttempts)
        ELSE [q EXCEPT !.pc = "lookup"]

LoopEntryNoCancel(p, ctxDone) ==
    LET q == [p EXCEPT !.attempts = p.attempts + 1]
    IN  IF q.elapsed > q.policy.Timeout THEN PollReturn(q, Nil, ErrPollTimeout)
        ELSE IF q.attempts > q.policy.MaxAttempts THEN PollReturn(q, Nil, ErrMaxAttempts)
        ELSE [q EXCEPT !.pc = "lookup"]

\* Lines 75-92: the loop-entry checks of one iteration.
LoopEntry(p, ctxDone) ==
    LET q == [p EXCEPT !.attempts = p.attempts + 1]
    IN  IF q.elapsed > q.policy.Timeout THEN PollReturn(q, Nil, ErrPollTimeout)
        ELSE IF q.attempts > q.policy.MaxAttempts THEN PollReturn(q, Nil, ErrMaxAttempts)
        ELSE IF ctxDone THEN PollReturn(q, Nil, CtxErr)
        ELSE [q EXCEPT !.pc = "lookup"]

\* Lines 48-62: one status lookup.  A request on a cancelled context fails.
GetTaskStatus(p, ctxDone) ==
    IF ctxDone THEN LookupFailed ELSE SourceAt(p.script, p.lookups + 1)

\* Variant of the switch with the SUCCEEDED case missing.
PollLookupNoSuccessCase(p, ctxDone) ==
    LET r == GetTaskStatus(p, ctxDone)
        q == [p EXCEPT !.lookups = p.lookups + 1, !.elapsed = p.elapsed + p.lat]
    IN  IF r = LookupFailed THEN [q EXCEPT !.pc = "sleep_err"]
        ELSE IF r = TaskStatusFailed THEN PollReturn(q, r, ErrTaskFailed(q.providerError))
        ELSE IF r = TaskStatusCanceled THEN PollReturn(q, r, ErrTaskCanceled)
        ELSE [q EXCEPT !.pc = "sleep"]

\* Variant that reports FAILED without reading the response's Error field.
PollLookupPlaceholderOnly(p, ctxDone) ==
    LET r == GetTaskStatus(p, ctxDone)
        q == [p EXCEPT !.lookups = p.lookups + 1, !.elapsed = p.elapsed + p.lat]
    IN  IF r = LookupFailed THEN [q EXCEPT !.pc = "sleep_err"]
        ELSE IF r = TaskStatusSucceeded THEN PollReturn(q, r, NoError)
        ELSE IF r = TaskStatusFailed THEN PollReturn(q, r, ErrTaskFailed(Nil))
        ELSE IF r = TaskStatusCanceled THEN PollReturn(q, r, ErrTaskCanceled)
        ELSE [q EXCEPT !.pc = "sleep"]

\* Variant that gives up on a failed lookup and returns its error.
PollLookupReturnsLookupError(p, ctxDone) ==
    LET r == GetTaskStatus(p, ctxDone)
        q == [p EXCEPT !.lookups = p.lookups + 1, !.elapsed = p.elapsed + p.lat]
    IN  IF r = LookupFailed
        THEN PollReturn(q, Nil, NewNetworkError("HTTP request failed"))
        ELSE IF r = TaskStatusSucceeded THEN PollReturn(q, r, NoError)
        ELSE IF r = TaskStatusFailed THEN PollReturn(q, r, ErrTaskFailed(q.providerError))
        ELSE IF r = TaskStatusCanceled THEN PollReturn(q, r, ErrTaskCanceled)
        ELSE [q EXCEPT !.pc = "sleep"]

\* Variant that returns the context's error when the lookup fails on a
\* cancelled context.
PollLookupObservesCancel(p, ctxDone) ==
    LET r == GetTaskStatus(p, ctxDone)
        q == [p EXCEPT !.lookups = p.lookups + 1, !.elapsed = p.elapsed + p.lat]
    IN  IF r = LookupFailed /\ ctxDone THEN PollReturn(q, Nil, CtxErr)
        ELSE IF r = LookupFailed THEN [q EXCEPT !.pc = "sleep_err"]
        ELSE IF r = TaskStatusSucceeded THEN PollReturn(q, r, NoError)
        ELSE IF r = TaskStatusFailed THEN PollReturn(q, r, ErrTaskFailed(q.providerError))
        ELSE IF r = TaskStatusCanceled THEN PollReturn(q, r, ErrTaskCanceled)
        ELSE [q EXCEPT !.pc = "sleep"]

\* Lines 95-118: the lookup and the switch on its status.
PollLookup(p, ctxDone) ==
    LET r == GetTaskStatus(p, ctxDone)
        q == [p EXCEPT !.lookups = p.lookups + 1, !.elapsed = p.elapsed + p.lat]
    IN  IF r = LookupFailed THEN [q EXCEPT !.pc = "sleep_err"]
        ELSE IF r = TaskStatusSucceeded THEN PollReturn(q, r, NoError)
        ELSE IF r = TaskStatusFailed THEN PollReturn(q, r, ErrTaskFailed(q.providerError))
        ELSE IF r = TaskStatusCanceled THEN PollReturn(q, r, ErrTaskCanceled)
        ELSE [q EXCEPT !.pc = "sleep"]

\* Variants of the backoff: doubling instead of x1.5, and without the cap.
NextIntervalDoubling(interval, cfg) ==
    LET grown == interval * 2
    IN  IF grown > cfg.MaxInterval THEN cfg.MaxInterval ELSE grown

NextIntervalUncapped(interval, cfg) == (interval * 3) \div 2

\* Lines 124-127: interval = Duration(float64(interval) * 1.5), capped.
NextInterval(interval, cfg) ==
    LET grown == (interval * 3) \div 2
    IN  IF grown > cfg.MaxInterval THEN cfg.MaxInterval ELSE grown

\* Variant that grows the interval after every sleep.
PollSleepAlwaysGrows(p) ==
    [p EXCEPT !.elapsed = p.elapsed + p.interval, !.sleeps = p.sleeps + 1,
              !.pc = "check", !.interval = NextInterval(p.interval, p.policy)]

\* Lines 99-100 (after a failed lookup) and 121-127 (after a non-terminal
\* status): sleep, and in the second case grow the interval.
PollSleep(p) ==
    LET q == [p EXCEPT !.elapsed = p.elapsed + p.interval, !.sleeps = p.sleeps + 1,
                       !.pc = "check"]
    IN  IF p.pc = "sleep" THEN [q EXCEPT !.interval = NextInterval(p.interval, p.policy)]
        ELSE q

\* One step of the loop; steps counts the steps taken so far.
PollStep(p, ctxDone) ==
    LET q == [p EXCEPT !.steps = p.steps + 1]
    IN  IF p.pc = "check" THEN LoopEntry(q, ctxDone)
        ELSE IF p.pc = "lookup" THEN PollLookup(q, ctxDone)
        ELSE IF p.pc \in {"sleep", "sleep_err"} THEN PollSleep(q)
        ELSE p

\* The whole call, run to its return: the context is done from step
\* cancelAt on (Never: it stays live during the call).
Never == -1
CtxDoneAt(step, cancelAt) == cancelAt # Never /\ step >= cancelAt

\* n steps of the loop (split in halves to keep the evaluation shallow).
RECURSIVE PollSteps(_, _, _)
PollSteps(p, cancelAt, n) ==
    IF p.pc = "done" \/ n = 0 THEN p
    ELSE IF n = 1 THEN PollStep(p, CtxDoneAt(p.steps, cancelAt))
    ELSE PollSteps(PollSteps(p, cancelAt, n \div 2), cancelAt, n - (n \div 2))

\* An iteration takes at most three steps and the loop returns at the
\* latest at the entry of iteration MaxAttempts + 1.
MaxPollSteps(cfg) == 3 * ((IF cfg.MaxAttempts > 0 THEN cfg.MaxAttempts ELSE 0) + 1)

RunPoll(p, cancelAt) == PollSteps(p, cancelAt, MaxPollSteps(p.policy))

\* What a run of WaitForTaskCompletion hands back: the returned pair and
\* the number of lookups it made.
PollOutcome(p) == [status |-> p.status, err |-> p.err, lookups |-> p.lookups]

(***************************************************************************)
(* The orchestrator (middleware.go).  Two caller goroutines issue generate *)
(* calls one after the other; every call gets the next call id, which also *)
(* names the dispatch unit (metering goroutine) the call may spawn.        *)
(***************************************************************************)
Callers == {"A", "B"}
CallIds == 1..MaxCalls
Operations == {"ImageToVideo", "VideoToVideo", "UpscaleVideo"}
CancelSteps == {Never} \cup (0..MaxCancelStep)

\* Every way WaitForTaskCompletion can end under the default policy, over
\* all status sources, lookup latencies and cancellation moments.
DefaultPollOutcomes ==
    UNION {{PollOutcome(RunPoll(WithProviderError(
                    PollInit(DefaultPollingConfig, script, lat), e), cancelAt)) :
                lat \in Latencies, cancelAt \in CancelSteps,
                e \in ProviderErrorsOf(script)} : script \in Scripts}

\* createTask outcomes (lines 131-145 of the Runway client): newRequest or
\* doRequest fails with a provider or network error, or the task is created.
CreateErrors ==
    {NewNetworkError("HTTP request failed"), NewProviderError("Runway API error")}
CreateOutcomes == {NoError} \cup CreateErrors

\* The nil *VideoGenerationResult.
NilResult == [Status |-> Nil, Op |-> Nil]

IdleCall ==
    [pc |-> "idle", id |-> 0, op |-> Nil, created |-> FALSE, polled |-> Nil,
     lookups |-> 0, result |-> NilResult, err |-> NoError]

\* Lines 138-162: the VideoGenerationResult built from the final status.
BuildResult(op, status) == [Status |-> status, Op |-> op]

\* Variant that builds the result without looking at the error.
AfterPollIgnoringError(c, o) ==
    [c EXCEPT !.polled = o.status, !.lookups = o.lookups, !.pc = "built",
              !.result = BuildResult(c.op, o.status)]

\* Variant that returns the error together with a result.
AfterPollResultAndError(c, o) ==
    LET q == [c EXCEPT !.polled = o.status, !.lookups = o.lookups]
    IN  IF o.err # NoError
        THEN [q EXCEPT !.pc = "returned", !.result = BuildResult(c.op, o.status),
                       !.err = o.err]
        ELSE [q EXCEPT !.pc = "built", !.result = BuildResult(c.op, o.status)]

\* Lines 133-136 and 138-162: what the call does with the pair returned by
\* WaitForTaskCompletion: any error aborts the call, else the result is built.
AfterPoll(c, o) ==
    LET q == [c EXCEPT !.polled = o.status, !.lookups = o.lookups]
    IN  IF o.err # NoError
        THEN [q EXCEPT !.pc = "returned", !.result = NilResult, !.err = o.err]
        ELSE [q EXCEPT !.pc = "built", !.result = BuildResult(c.op, o.status)]

\* Variants: an Add that does not count, a Wait that does not block, a Done
\* that does not count.
WgAddNothing(n, delta) == n
WgDoneNothing(n) == n
\* A Wait that blocks for ever.
WgWaitNeverReturns(n) == FALSE
WgWaitNeverBlocks(n) == TRUE

\* sync.WaitGroup: Add, Done, and the condition Wait blocks on.
WgAdd(n, delta) == n + delta
WgDone(n) == n - 1
WgWaitReturns(n) == n = 0

(***************************************************************************)
(* The usage record (metering client, buildMeteringPayload).  A Go value   *)
(* of type interface{} is modelled with its dynamic type, a map as the     *)
(* function from its keys to its values, a time as milliseconds.           *)
(***************************************************************************)
IntValue(n) == [type |-> "int", v |-> n]
Int64Value(n) == [type |-> "int64", v |-> n]
Float64Value(x) == [type |-> "float64", v |-> x]
StringValue(s) == [type |-> "string", v |-> s]
BoolValue(b) == [type |-> "bool", v |-> b]
NilValue == [type |-> "nil", v |-> Nil]
\* A channel: a value encoding/json has no encoding for.
ChanValue == [type |-> "chan", v |-> Nil]

\* A nil map and an empty map read alike: no key is present and a range
\* over it has no iteration.
EmptyMap == [k \in {} |-> NilValue]

\* The comma-ok type assertion m[key].(type).
IsA(m, key, type) == key \in DOMAIN m /\ m[key].type = type

\* for k, v := range m { if _, exists := payload[k]; !exists { payload[k] = v } }
AddIfAbsent(payload, m) ==
    [k \in DOMAIN payload \cup DOMAIN m |->
        IF k \in DOMAIN payload THEN payload[k] ELSE m[k]]

\* payload[k] = v for every entry of m.
Assign(payload, m) ==
    [k \in DOMAIN payload \cup DOMAIN m |->
        IF k \in DOMAIN m THEN m[k] ELSE payload[k]]

\* time.Format(time.RFC3339) keeps whole seconds.
FormatRFC3339(t) == ToString(t \div 1000)

\* The nil *VideoGenerationResult has no fields; a built one has these.
VideoGenerationResult(id, status, duration, model, metadata) ==
    [ID |-> id, Status |-> status, Duration |-> duration, Model |-> model,
     Error |-> Nil, FailureCode |-> Nil, Metadata |-> metadata]

\* UsageMetadata with every field at its zero value, and the nil pointer.
ZeroUsageMetadata ==
    [OrganizationID |-> "", ProductID |-> "", TaskType |-> "", Agent |-> "",
     SubscriptionID |-> "", TraceID |-> "", ParentTransactionID |-> "",
     TraceType |-> "", TraceName |-> "", Environment |-> "", Region |-> "",
     RetryNumber |-> NilValue, CredentialAlias |-> "", Subscriber |-> NilValue,
     TaskID |-> "", ResponseQualityScore |-> NilValue, Custom |-> EmptyMap]
NilUsageMetadata == [nil |-> TRUE]

\* The string fields of UsageMetadata and the record key each one is
\* written under; the fields that are pointers or maps likewise.
StringFields ==
    {<<"OrganizationID", "organizationId">>, <<"ProductID", "productId">>,
     <<"TaskType", "taskType">>, <<"Agent", "agent">>,
     <<"SubscriptionID", "subscriptionId">>, <<"TraceID", "traceId">>,
     <<"ParentTransactionID", "parentTransactionId">>,
     <<"TraceType", "traceType">>, <<"TraceName", "traceName">>,
     <<"Environment", "environment">>, <<"Region", "region">>,
     <<"CredentialAlias", "credentialAlias">>, <<"TaskID", "taskId">>}
NillableFields ==
    {<<"RetryNumber", "retryNumber">>, <<"Subscriber", "subscriber">>,
     <<"ResponseQualityScore", "responseQualityScore">>}

\* The identification fields the caller has set, as record entries.
UsageFields(metadata) ==
    LET strs == {f \in StringFields : metadata[f[1]] # ""}
        ptrs == {f \in NillableFields : metadata[f[1]] # NilValue}
        FieldOf(k) == CHOOSE f \in strs \cup ptrs : f[2] = k
    IN  [k \in {f[2] : f \in strs \cup ptrs} |->
            IF FieldOf(k) \in strs
            THEN StringValue(metadata[FieldOf(k)[1]])
            ELSE metadata[FieldOf(k)[1]]]

\* Lines 51-57: the stop reason of a status.
stopReason(status) ==
    IF status = TaskStatusFailed THEN "ERROR"
    ELSE IF status = TaskStatusCanceled THEN "CANCELLED"
    ELSE "END"

\* Lines 59-69: the billed video duration read from the result metadata.
videoDurationSeconds(metadata) ==
    IF IsA(metadata, "duration", "int")
    THEN Float64Value(metadata["duration"].v)
    ELSE IF IsA(metadata, "duration", "float64") THEN metadata["duration"]
    ELSE IF IsA(metadata, "durationSeconds", "float64")
    THEN metadata["durationSeconds"]
    ELSE Float64Value(5)

\* Lines 71-86: the base payload.
BasePayload(result, now) ==
    [operationType |-> StringValue("VIDEO"),
     provider |-> StringValue("runway"),
     modelSource |-> StringValue("RUNWAY"),
     model |-> StringValue(result.Model),
     transactionId |-> StringValue(result.ID),
     requestTime |-> StringValue(FormatRFC3339(now - result.Duration)),
     responseTime |-> StringValue(FormatRFC3339(now)),
     requestDuration |-> Int64Value(result.Duration),
     durationSeconds |-> videoDurationSeconds(result.Metadata),
     stopReason |-> StringValue(stopReason(result.Status)),
     costType |-> StringValue("AI"),
     isStreamed |-> BoolValue(FALSE),
     middlewareSource |-> StringValue("revenium-middleware-runway-go")]

\* Variant that leaves the stop reason of the status in place.
AddErrorInformationKeepingStopReason(payload, result) ==
    LET e == IF result.Error # Nil
             THEN ("errorReason" :> StringValue(result.Error))
             ELSE EmptyMap
        f == IF result.FailureCode # Nil
             THEN ("failureCode" :> StringValue(result.FailureCode))
             ELSE EmptyMap
    IN  Assign(Assign(payload, e), f)

\* Lines 88-95: the error information of a failed result.
AddErrorInformation(payload, result) ==
    LET e == IF result.Error # Nil
             THEN ("errorReason" :> StringValue(result.Error)) @@
                  ("stopReason" :> StringValue("ERROR"))
             ELSE EmptyMap
        f == IF result.FailureCode # Nil
             THEN ("failureCode" :> StringValue(result.FailureCode))
             ELSE EmptyMap
    IN  Assign(Assign(payload, e), f)

\* Lines 97-105: result metadata is added under the keys not yet present.
AddResultMetadata(payload, metadata) == AddIfAbsent(payload, metadata)

\* Variant in which an identification field yields to a key already present.
AddUsageFieldsIfAbsent(payload, metadata) ==
    AddIfAbsent(payload, UsageFields(metadata))

\* Lines 108-157: every identification field the caller has set is assigned.
AddUsageFields(payload, metadata) == Assign(payload, UsageFields(metadata))

\* Variant in which a custom entry replaces the key it meets.
AddCustomOverwriting(payload, custom) == Assign(payload, custom)

\* Lines 158-165: custom entries are added under the keys not yet present.
AddCustom(payload, custom) == AddIfAbsent(payload, custom)

\* Lines 47-169: buildMeteringPayload.
buildMeteringPayload(result, metadata, now) ==
    LET withResult ==
            AddResultMetadata(AddErrorInformation(BasePayload(result, now), result),
                              result.Metadata)
    IN  IF metadata = NilUsageMetadata
        THEN withResult
        ELSE AddCustom(AddUsageFields(withResult, metadata), metadata.Custom)

(***************************************************************************)
(* The generate operations (middleware.go): the request with its default   *)
(* model, and the result built from the final status response.             *)
(***************************************************************************)
\* Variant with one default model for every operation.
DefaultModelAlwaysTurbo(op) == "gen3a_turbo"

\* Lines 119-122, 179-182 and 237-240: the default model of an operation.
DefaultModel(op) == IF op = "UpscaleVideo" THEN "upscale" ELSE "gen3a_turbo"

\* The request after the default model has been set in place.
WithDefaultModel(op, req) ==
    IF req.Model = "" THEN [req EXCEPT !.Model = DefaultModel(op)] ELSE req

\* Lines 149-154: the requested duration stored in the result metadata; the
\* upscale request has no duration and its result has a nil metadata map.
RequestedDuration(op, req) ==
    IF op = "UpscaleVideo" THEN EmptyMap
    ELSE "requestedDuration" :>
            IntValue(IF req.Duration > 0 THEN req.Duration ELSE 5)

\* Lines 138-162: the result of an operation, from the request as sent, the
\* created task and the final status response.
OperationResult(op, req, taskId, statusResp, elapsed) ==
    [VideoGenerationResult(taskId, statusResp.Status, elapsed, req.Model,
                           RequestedDuration(op, req))
        EXCEPT !.Error = statusResp.Error,
               !.FailureCode = statusResp.FailureCode]

(***************************************************************************)
(* Inputs of the usage record: results, caller metadata, requests.         *)
(***************************************************************************)
\* Every map that gives each key of a subset of the keys one of its values.
MapsOver(valuesOf) ==
    UNION {{m \in [S -> UNION {valuesOf[k] : k \in S}] :
                \A k \in S : m[k] \in valuesOf[k]} :
            S \in SUBSET DOMAIN valuesOf}

ResultMetadataInputs ==
    MapsOver([duration |-> {IntValue(10), Float64Value(7), StringValue("10s")},
              durationSeconds |-> {IntValue(8), Float64Value(6)},
              organizationId |-> {StringValue("org-of-result")},
              model |-> {StringValue("gen2")}])

CustomInputs ==
    MapsOver([organizationId |-> {StringValue("org-of-custom")},
              tier |-> {StringValue("gold")},
              durationSeconds |-> {Float64Value(99)}])

UsageMetadataInputs ==
    {NilUsageMetadata} \cup
    {[ZeroUsageMetadata EXCEPT !.OrganizationID = o, !.RetryNumber = r,
                               !.Custom = c] :
        o \in {"", "acme"}, r \in {NilValue, IntValue(1)}, c \in CustomInputs}

FailureCodes == {Nil, "SAFETY.INPUT.TEXT"}
ElapsedTimes == {1500}
Clock == {60000}
TaskIds == {"task-1"}

\* Results as a caller of SendVideoMetering may pass them.
ResultInputs ==
    {[VideoGenerationResult(id, status, elapsed, "gen3a_turbo", m)
        EXCEPT !.Error = e, !.FailureCode = f] :
        id \in TaskIds, status \in TaskStatuses, elapsed \in ElapsedTimes,
        m \in ResultMetadataInputs, e \in ProviderErrors, f \in FailureCodes}

\* The requests of an operation: the upscale request has a model only.
NilRequest == [nil |-> TRUE]
RequestInputs(op) ==
    IF op = "UpscaleVideo"
    THEN {[Model |-> m] : m \in {"", "upscale_v1"}}
    ELSE {[Model |-> m, Duration |-> d] : m \in {"", "gen4_turbo"}, d \in {0, 5, 10}}

\* The final status responses after which a result is built: polling has
\* returned no error, so the status is SUCCEEDED.
StatusResponseInputs ==
    {[Status |-> TaskStatusSucceeded, Error |-> e, FailureCode |-> f] :
        e \in ProviderErrors, f \in FailureCodes}

IdleMeter == [pc |-> "idle"]

(***************************************************************************)
(* The metering dispatcher (MeteringClient.SendVideoMetering and           *)
(* sendWithRetry) as a step function on the locals of one delivery.        *)
(* The Revenium endpoint is a script of responses, one per request: an     *)
(* HTTP status code, TransportFailure when the request gets no response,   *)
(* or AckLost when the endpoint accepts the record and its response is     *)
(* lost.  A script is a prefix of retryable failures followed by one final *)
(* response.                                                               *)
(*   pc        "loop", "sleep", "request", "done" or "panicked"            *)
(*   attempt, backoff, lastErr   the locals of sendWithRetry               *)
(*   requests  number of sendMeteringRequest calls made so far             *)
(*   sleepLog  the durations slept so far (ms)                             *)
(*   err       the returned error once pc = "done"                         *)
(*   payload   the usage record handed to sendWithRetry                    *)
(*   apiKey    the ReveniumAPIKey of the metering client's configuration   *)
(***************************************************************************)
maxRetries == 3
initialBackoff == 100

TransportFailure == 0
AckLost == 1
StatusSwitchingProtocols == 101
StatusOK == 200
StatusFound == 302
StatusBadRequest == 400
StatusInternalServerError == 500

\* The responses that never reach the client, and those after which the
\* endpoint has stored the record it was sent.
LostResponses == {TransportFailure, AckLost}
AcceptingResponses == {StatusOK, AckLost}

RetryableResponses == {TransportFailure, StatusInternalServerError}
EndpointResponses == RetryableResponses \cup {StatusOK, StatusBadRequest}
SendScripts ==
    {Append(pre, f) : pre \in SeqsUpTo(RetryableResponses, MaxSendPrefix),
                      f \in EndpointResponses}

\* fmt.Errorf("status %d: %s", resp.StatusCode, body).
StatusError(code) == [type |-> "errorString", msg |-> "status " \o ToString(code)]

\* json.Marshal(payload) succeeds (line 214).
Marshalable(payload) == \A key \in DOMAIN payload : payload[key].type # "chan"
MarshalError == [type |-> "json.UnsupportedTypeError", msg |-> "json: unsupported type"]

\* Variant that reports every status outside 2xx as a validation error.
sendMeteringRequestAnyStatusStops(apiKey, payload, code, ctxDone) ==
    IF apiKey = ""
    THEN NewConfigError("Revenium API key not configured")
    ELSE IF ~Marshalable(payload)
    THEN NewMeteringError("failed to marshal metering payload", MarshalError)
    ELSE IF ctxDone \/ code \in LostResponses
    THEN NewNetworkError("metering request failed")
    ELSE IF code < 200 \/ code >= 300
    THEN NewValidationError("metering API returned " \o ToString(code))
    ELSE NoError

\* Lines 202-257: one request of a client configured with apiKey.  Without
\* a key, or with a payload that cannot be marshalled, nothing is sent.  A
\* request on a cancelled context, like one that gets no response, fails
\* in meteringHTTPClient.Do.
sendMeteringRequest(apiKey, payload, code, ctxDone) ==
    IF apiKey = ""
    THEN NewConfigError("Revenium API key not configured")
    ELSE IF ~Marshalable(payload)
    THEN NewMeteringError("failed to marshal metering payload", MarshalError)
    ELSE IF ctxDone \/ code \in LostResponses
    THEN NewNetworkError("metering request failed")
    ELSE IF code < 200 \/ code >= 300
    THEN IF code >= 400 /\ code < 500
         THEN NewValidationError("metering API returned " \o ToString(code))
         ELSE NewMeteringError("metering API error", StatusError(code))
    ELSE NoError

\* The Revenium API key of a client whose configuration passed Validate.
ConfiguredAPIKey == "hak_live"

IdleSend ==
    [pc |-> "idle", script |-> <<StatusOK>>, attempt |-> 0, backoff |-> 0,
     requests |-> 0, sleepLog |-> <<>>, lastErr |-> NoError, err |-> NoError,
     payload |-> EmptyMap, apiKey |-> ConfiguredAPIKey]

\* Lines 173-179: the locals before the first iteration.
SendInit(script) ==
    [pc |-> "loop", script |-> script, attempt |-> 0, backoff |-> initialBackoff,
     requests |-> 0, sleepLog |-> <<>>, lastErr |-> NoError, err |-> NoError,
     payload |-> EmptyMap, apiKey |-> ConfiguredAPIKey]

\* Lines 39-43: SendVideoMetering builds the payload once and hands it to
\* sendWithRetry.
SendVideoMeteringInit(result, metadata, now, script) ==
    [SendInit(script) EXCEPT !.payload = buildMeteringPayload(result, metadata, now)]

\* Variant that stamps the number of the attempt into what it sends.
AttemptPayloadStamped(s) ==
    Assign(s.payload, "attempt" :> IntValue(s.attempt))

\* Line 185: each attempt marshals the same payload value.
AttemptPayload(s) == s.payload

\* What the endpoint holds after the next request of a delivery: it stores
\* the record of a request that reaches it and that it accepts.
EndpointReceives(stored, s, ctxDone) ==
    IF /\ s.apiKey # "" /\ Marshalable(AttemptPayload(s))
       /\ ~ctxDone /\ SourceAt(s.script, s.requests + 1) \in AcceptingResponses
    THEN Append(stored, AttemptPayload(s))
    ELSE stored

SendReturn(s, err) == [s EXCEPT !.pc = "done", !.err = err]

\* Variant of the loop condition that allows one more iteration.
SendLoopHeadOffByOne(s) ==
    IF s.attempt <= maxRetries
    THEN [s EXCEPT !.pc = IF s.attempt > 0 THEN "sleep" ELSE "request"]
    ELSE SendReturn(s, NewMeteringError("metering failed after retries", s.lastErr))

\* Lines 179-180 and 198: the loop condition, the test for a sleep, and the
\* return after the last iteration.
SendLoopHead(s) ==
    IF s.attempt < maxRetries
    THEN [s EXCEPT !.pc = IF s.attempt > 0 THEN "sleep" ELSE "request"]
    ELSE SendReturn(s, NewMeteringError("metering failed after retries", s.lastErr))

\* Variant of the sleep that does not double the backoff.
SendSleepNoDoubling(s) ==
    [s EXCEPT !.sleepLog = Append(s.sleepLog, s.backoff), !.pc = "request"]

\* Lines 181-182: time.Sleep(backoff), which no context interrupts, then
\* backoff *= 2.
SendSleep(s) ==
    [s EXCEPT !.sleepLog = Append(s.sleepLog, s.backoff),
              !.backoff = s.backoff * 2, !.pc = "request"]

\* Variants of the request step: a validation failure retried like any
\* other, and lastErr recorded for the first failure only.
SendRequestRetriesValidation(s, ctxDone) ==
    LET err == sendMeteringRequest(s.apiKey, AttemptPayload(s),
                                   SourceAt(s.script, s.requests + 1), ctxDone)
        q == [s EXCEPT !.requests = s.requests + 1]
    IN  IF err = NoError THEN SendReturn(q, NoError)
        ELSE [q EXCEPT !.lastErr = err, !.attempt = s.attempt + 1, !.pc = "loop"]

SendRequestKeepsFirstError(s, ctxDone) ==
    LET err == sendMeteringRequest(s.apiKey, AttemptPayload(s),
                                   SourceAt(s.script, s.requests + 1), ctxDone)
        q == [s EXCEPT !.requests = s.requests + 1]
        r == IF s.lastErr = NoError THEN [q EXCEPT !.lastErr = err] ELSE q
    IN  IF err = NoError THEN SendReturn(q, NoError)
        ELSE IF IsValidationError(err) THEN SendReturn(r, err)
        ELSE [r EXCEPT !.attempt = s.attempt + 1, !.pc = "loop"]

\* Lines 185-195 and the attempt++ of line 179: one request and what the
\* loop does with its error.
SendRequest(s, ctxDone) ==
    LET err == sendMeteringRequest(s.apiKey, AttemptPayload(s),
                                   SourceAt(s.script, s.requests + 1), ctxDone)
        q == [s EXCEPT !.requests = s.requests + 1]
        r == [q EXCEPT !.lastErr = err]
    IN  IF err = NoError THEN SendReturn(q, NoError)
        ELSE IF IsValidationError(err) THEN SendReturn(r, err)
        ELSE [r EXCEPT !.attempt = s.attempt + 1, !.pc = "loop"]

\* A runtime fault (panic) inside SendVideoMetering unwinds the delivery.
SendPanic(s) == [s EXCEPT !.pc = "panicked"]

\* What sendMetering writes to the log, and whether the process survives.
NoLog == [msg |-> Nil, err |-> NoError]
PanicValue == [type |-> "panic", msg |-> "runtime error"]

\* Variant of sendMetering without the deferred recover.
SendMeteringEndNoRecover(s) ==
    IF s.pc = "panicked" THEN [log |-> NoLog, crashed |-> TRUE]
    ELSE IF s.err # NoError
    THEN [log |-> [msg |-> "Failed to send metering data", err |-> s.err],
          crashed |-> FALSE]
    ELSE [log |-> NoLog, crashed |-> FALSE]

\* middleware.go lines 285-295: the deferred recover logs a panic, an error
\* returned by SendVideoMetering is logged; neither leaves sendMetering.
SendMeteringEnd(s) ==
    IF s.pc = "panicked"
    THEN [log |-> [msg |-> "Metering goroutine panic", err |-> PanicValue],
          crashed |-> FALSE]
    ELSE IF s.err # NoError
    THEN [log |-> [msg |-> "Failed to send metering data", err |-> s.err],
          crashed |-> FALSE]
    ELSE [log |-> NoLog, crashed |-> FALSE]

\* The generate outcomes used where the dispatch unit is stepped: polling
\* ends at its first loop entry or lookup.
DispatchPollOutcomes == {o \in DefaultPollOutcomes : o.lookups <= 1}

(***************************************************************************)
(* Configuration (config.go) and the global client (middleware.go).  The   *)
(* process environment and a .env file are maps from the names of the set  *)
(* variables to their values; an option is the field it sets and the value *)
(* it sets it to.                                                          *)
(***************************************************************************)
\* The zero Config.
ZeroConfig ==
    [RunwayAPIKey |-> "", RunwayBaseURL |-> "", RunwayVersion |-> "",
     ReveniumAPIKey |-> "", ReveniumBaseURL |-> "", ReveniumOrgID |-> "",
     ReveniumProductID |-> "", LogLevel |-> "", VerboseStartup |-> FALSE]

\* Lines 32-57: the functional options.
WithRunwayAPIKey(key) == [field |-> "RunwayAPIKey", value |-> key]
WithRunwayBaseURL(url) == [field |-> "RunwayBaseURL", value |-> url]
WithReveniumAPIKey(key) == [field |-> "ReveniumAPIKey", value |-> key]
WithReveniumBaseURL(url) == [field |-> "ReveniumBaseURL", value |-> url]

\* middleware.go lines 39-41: for _, opt := range opts { opt(cfg) }.
RECURSIVE ApplyOptions(_, _)
ApplyOptions(c, opts) ==
    IF opts = <<>> THEN c
    ELSE ApplyOptions([c EXCEPT ![Head(opts).field] = Head(opts).value], Tail(opts))

\* os.Getenv and getEnvOrDefault (lines 162-167).
Getenv(env, key) == IF key \in DOMAIN env THEN env[key] ELSE ""
getEnvOrDefault(env, key, defaultValue) ==
    IF Getenv(env, key) # "" THEN Getenv(env, key) ELSE defaultValue

\* s[len(s)-n:] == suffix, guarded by len(s) >= n, and s[:len(s)-n].
EndsWith(s, suffix) ==
    Len(s) >= Len(suffix) /\ SubSeq(s, Len(s) - Len(suffix) + 1, Len(s)) = suffix
DropLast(s, n) == SubSeq(s, 1, Len(s) - n)

\* Lines 171-198: NormalizeReveniumBaseURL.
NormalizeReveniumBaseURL(baseURL) ==
    IF baseURL = "" THEN "https://api.revenium.ai"
    ELSE LET u == IF EndsWith(baseURL, "/") THEN DropLast(baseURL, 1) ELSE baseURL
         IN  IF EndsWith(u, "/meter/v2") THEN DropLast(u, 9)
             ELSE IF EndsWith(u, "/meter") THEN DropLast(u, 6)
             ELSE IF EndsWith(u, "/v2") THEN DropLast(u, 3)
             ELSE u

\* Lines 91-132: godotenv.Load sets the variables of a .env file that the
\* environment does not have yet.
loadEnvFiles(env, dotenv) == AddIfAbsent(env, dotenv)

\* Lines 60-88: LoadFromEnv assigns every field from the environment (the
\* .env files already loaded into it).
LoadFromEnv(c, env) ==
    [RunwayAPIKey |-> Getenv(env, "RUNWAY_API_KEY"),
     RunwayBaseURL |->
        getEnvOrDefault(env, "RUNWAY_BASE_URL", "https://api.runwayml.com"),
     RunwayVersion |-> getEnvOrDefault(env, "RUNWAY_VERSION", "2024-11-06"),
     ReveniumAPIKey |-> Getenv(env, "REVENIUM_METERING_API_KEY"),
     ReveniumBaseURL |->
        NormalizeReveniumBaseURL(
            getEnvOrDefault(env, "REVENIUM_METERING_BASE_URL",
                            "https://api.revenium.ai")),
     ReveniumOrgID |-> Getenv(env, "REVENIUM_ORGANIZATION_ID"),
     ReveniumProductID |-> Getenv(env, "REVENIUM_PRODUCT_ID"),
     LogLevel |-> getEnvOrDefault(env, "REVENIUM_LOG_LEVEL", "INFO"),
     VerboseStartup |-> Getenv(env, "REVENIUM_VERBOSE_STARTUP") \in {"true", "1"}]

\* Lines 153-159: isValidAPIKeyFormat.
isValidAPIKeyFormat(key) ==
    IF Len(key) < 4 THEN FALSE ELSE SubSeq(key, 1, 4) = "hak_"

\* Variant of Validate that looks at the Runway key first.
ValidateRunwayFirst(c) ==
    IF c.RunwayAPIKey = ""
    THEN NewConfigError("RUNWAY_API_KEY is required")
    ELSE IF c.ReveniumAPIKey = ""
    THEN NewConfigError("REVENIUM_METERING_API_KEY is required")
    ELSE IF ~isValidAPIKeyFormat(c.ReveniumAPIKey)
    THEN NewConfigError("invalid Revenium API key format")
    ELSE NoError

\* Lines 135-150: Validate.
Validate(c) ==
    IF c.ReveniumAPIKey = ""
    THEN NewConfigError("REVENIUM_METERING_API_KEY is required")
    ELSE IF ~isValidAPIKeyFormat(c.ReveniumAPIKey)
    THEN NewConfigError("invalid Revenium API key format")
    ELSE IF c.RunwayAPIKey = ""
    THEN NewConfigError("RUNWAY_API_KEY is required")
    ELSE NoError

\* The package variables globalClient, initialized and globalMu: the client
\* is its Config, mu names the operation that holds the lock.
NilClient == [nil |-> TRUE]
ZeroGlobals == [initialized |-> FALSE, client |-> NilClient, mu |-> "free"]

\* Variant of InitializeResult without the test of initialized.
InitializeAgain(g, opts, env, dotenv) ==
    LET cfg == LoadFromEnv(ApplyOptions(ZeroConfig, opts), loadEnvFiles(env, dotenv))
        err == Validate(cfg)
    IN  IF err # NoError
        THEN [glob |-> g, ran |-> TRUE, cfg |-> cfg, err |-> err]
        ELSE [glob |-> [g EXCEPT !.initialized = TRUE, !.client = cfg],
              ran |-> TRUE, cfg |-> cfg, err |-> NoError]

\* middleware.go lines 26-66: Initialize, from the package variables, the
\* options, the environment and the .env file to the new package
\* variables, the configuration it validated and the error it returns.
InitializeResult(g, opts, env, dotenv) ==
    LET cfg == LoadFromEnv(ApplyOptions(ZeroConfig, opts), loadEnvFiles(env, dotenv))
        err == Validate(cfg)
    IN  IF g.initialized
        THEN [glob |-> g, ran |-> FALSE, cfg |-> ZeroConfig, err |-> NoError]
        ELSE IF err # NoError
        THEN [glob |-> g, ran |-> TRUE, cfg |-> cfg, err |-> err]
        ELSE [glob |-> [g EXCEPT !.initialized = TRUE, !.client = cfg],
              ran |-> TRUE, cfg |-> cfg, err |-> NoError]

\* middleware.go lines 88-106: NewReveniumRunway, from a *Config to the
\* client (its Config) and the error.
NilConfig == [nil |-> TRUE]
NewReveniumRunway(cfg) ==
    IF cfg = NilConfig
    THEN [client |-> NilClient, err |-> NewConfigError("config cannot be nil")]
    ELSE IF Validate(cfg) # NoError
    THEN [client |-> NilClient, err |-> Validate(cfg)]
    ELSE [client |-> cfg, err |-> NoError]

\* middleware.go lines 76-85: GetClient.
GetClient(g) ==
    IF ~g.initialized
    THEN [client |-> NilClient,
          err |-> NewConfigError("middleware not initialized, call Initialize() first")]
    ELSE [client |-> g.client, err |-> NoError]

\* No configuration function called yet.
NoCall == [fn |-> Nil]

\* The configurations and base URLs tried.
ConfigInputs ==
    {[ZeroConfig EXCEPT !.ReveniumAPIKey = rev, !.RunwayAPIKey = rw] :
        rev \in {"", "hak", "hak_", "hak_key", "key_hak_", "HAK_key"},
        rw \in {"", "rw_key"}}
BaseURLs ==
    {"https://api.revenium.ai", "https://eu.revenium.ai/api",
     "http://localhost:8080", "revenium.internal"}
LegacySuffixes == {"/", "/meter/v2", "/meter", "/v2"}
URLInputs ==
    {""} \cup BaseURLs \cup {b \o s : b \in BaseURLs, s \in LegacySuffixes}
         \cup {b \o s \o t : b \in BaseURLs, s \in LegacySuffixes, t \in LegacySuffixes}

\* No call of Initialize yet, and no call of Close or Reset.
NoInitialize ==
    [called |-> FALSE, opts |-> <<>>, env |-> EmptyMap, ran |-> FALSE,
     cfg |-> ZeroConfig, err |-> NoError]
IdleCloser == [pc |-> "idle", via |-> Nil, seen |-> {}, closed |-> FALSE]

\* Variant of Close that does not flush first.
CloseSkipsFlush(n) == TRUE

\* middleware.go line 307: Close calls r.Flush(), which waits on r.wg.
CloseWaits(n) == WgWaitReturns(n)

\* The environments, option lists and .env files tried.
EnvValues ==
    [RUNWAY_API_KEY |-> {"rw_env"},
     REVENIUM_METERING_API_KEY |-> {"hak_env", "key_env"},
     REVENIUM_METERING_BASE_URL |-> {"https://eu.revenium.ai/meter/v2/"}]
EnvNames == DOMAIN EnvValues
DotenvInputs == {EmptyMap, "REVENIUM_METERING_API_KEY" :> "hak_file"}
OptionInputs ==
    {<<>>,
     <<WithRunwayAPIKey("rw_opt")>>,
     <<WithReveniumAPIKey("hak_opt")>>,
     <<WithRunwayAPIKey("rw_opt"), WithReveniumAPIKey("hak_opt")>>,
     <<WithRunwayAPIKey("rw_opt"), WithReveniumAPIKey("hak_opt"),
       WithRunwayBaseURL("https://runway.test"),
       WithReveniumBaseURL("https://revenium.test")>>,
     <<WithReveniumBaseURL("https://revenium.test")>>}

(***************************************************************************)
(* State.                                                                  *)
(*   poll, pctx   one direct WaitForTaskCompletion call and its context    *)
(*   call         per caller goroutine, the generate call it is running    *)
(*   ncalls       number of generate calls started so far                  *)
(*   unit         per call id, the state of its dispatch unit              *)
(*   spawned      per call id, how many dispatch units were started for it *)
(*   wg           the counter of ReveniumRunway.wg                         *)
(*   flushPc      position of the goroutine calling Flush                  *)
(*   flushSeen    the dispatch units spawned before the current Flush call *)
(*   send         per call id, the delivery its dispatch unit is running   *)
(*   logged       per call id, what its dispatch unit wrote to the log     *)
(*   crashed      TRUE once a panic has left a goroutine (process exit)    *)
(*   cctx         per caller, whether the context of its call is cancelled *)
(*   meter        the usage record being built and what it was built from  *)
(*   ledger       per call id, the records the accounting endpoint stored   *)
(*   env          the process environment                                  *)
(*   glob         the package variables globalClient, initialized, globalMu *)
(*   lastInit     the last call of Initialize: input, configuration, error *)
(*   closer       the goroutine that calls Close or Reset                  *)
(*   lastCall     the last call of a configuration function and its return *)
(***************************************************************************)
VARIABLES poll, pctx, call, ncalls, unit, spawned, wg, flushPc, flushSeen,
          send, logged, crashed, cctx, meter, ledger, env, glob, lastInit,
          closer, lastCall

pollVars == <<poll, pctx>>
orchVars == <<call, ncalls, unit, spawned, wg, flushPc, flushSeen>>
dispVars == <<send, logged, crashed, cctx>>
globVars == <<env, glob, lastInit, closer, lastCall>>
auxVars == <<meter, ledger, globVars>>
vars == <<poll, pctx, call, ncalls, unit, spawned, wg, flushPc, flushSeen,
          send, logged, crashed, cctx, meter, ledger, env, glob, lastInit,
          closer, lastCall>>

PollerIdle ==
    /\ poll = IdlePoll
    /\ pctx = FALSE

OrchestratorIdle ==
    /\ call = [t \in Callers |-> IdleCall]
    /\ ncalls = 0
    /\ unit = [k \in CallIds |-> "none"]
    /\ spawned = [k \in CallIds |-> 0]
    /\ wg = 0
    /\ flushPc = "idle"
    /\ flushSeen = {}

DispatchIdle ==
    /\ send = [k \in CallIds |-> IdleSend]
    /\ logged = [k \in CallIds |-> NoLog]
    /\ crashed = FALSE
    /\ cctx = [t \in Callers |-> FALSE]

MeterIdle == meter = IdleMeter

\* The package variables are zero, no variable of the environment is set.
GlobalsZero ==
    /\ env = EmptyMap
    /\ glob = ZeroGlobals
    /\ lastInit = NoInitialize
    /\ closer = IdleCloser
    /\ lastCall = NoCall

\* The accounting endpoint has stored no record.
LedgerEmpty == ledger = [k \in CallIds |-> <<>>]

Init == PollerIdle /\ OrchestratorIdle /\ DispatchIdle /\ MeterIdle
        /\ LedgerEmpty /\ GlobalsZero

(***************************************************************************)
(* SpecPoll: one caller runs WaitForTaskCompletion step by step while its  *)
(* context may be cancelled at any moment.                                 *)
(***************************************************************************)
WaitForTaskCompletion(policy, script, lat, providerError) ==
    /\ poll.pc = "idle"
    /\ poll' = WithProviderError(PollInit(policy, script, lat), providerError)
    /\ UNCHANGED <<auxVars, pctx, orchVars, dispVars>>

WaitLoopEntry ==
    /\ poll.pc = "check"
    /\ poll' = PollStep(poll, pctx)
    /\ UNCHANGED <<auxVars, pctx, orchVars, dispVars>>

WaitLookup ==
    /\ poll.pc = "lookup"
    /\ poll' = PollStep(poll, pctx)
    /\ UNCHANGED <<auxVars, pctx, orchVars, dispVars>>

WaitSleep ==
    /\ poll.pc \in {"sleep", "sleep_err"}
    /\ poll' = PollStep(poll, pctx)
    /\ UNCHANGED <<auxVars, pctx, orchVars, dispVars>>

\* The caller's cancellation signal (ctx.Done()) fires.
CancelPollCtx ==
    /\ pctx = FALSE
    /\ pctx' = TRUE
    /\ UNCHANGED <<auxVars, poll, orchVars, dispVars>>

PollNext ==
    \/ /\ poll.pc = "idle"
       /\ \E policy \in PollingInputs, script \in Scripts, lat \in Latencies :
             \E providerError \in ProviderErrorsOf(script) :
                 WaitForTaskCompletion(policy, script, lat, providerError)
    \/ WaitLoopEntry
    \/ WaitLookup
    \/ WaitSleep
    \/ CancelPollCtx

SpecPoll == Init /\ [][PollNext]_vars

(***************************************************************************)
(* SpecPollFair: SpecPoll, with policies of a negative attempt budget      *)
(* added, under the assumption that the polling goroutine keeps running:   *)
(* time.Sleep returns, and a status lookup returns, at the latest when     *)
(* the HTTP client's 30 s timeout fails it.                                *)
(***************************************************************************)
PollFairNext ==
    \/ /\ poll.pc = "idle"
       /\ \E policy \in PollingInputs \cup {SmallPollingConfig(-2)},
             script \in Scripts, lat \in Latencies :
             \E providerError \in ProviderErrorsOf(script) :
                 WaitForTaskCompletion(policy, script, lat, providerError)
    \/ WaitLoopEntry
    \/ WaitLookup
    \/ WaitSleep
    \/ CancelPollCtx

SpecPollFair ==
    /\ Init
    /\ [][PollFairNext]_vars
    /\ WF_vars(WaitLoopEntry \/ WaitLookup \/ WaitSleep)

(***************************************************************************)
(* Spec: generate calls, their dispatch units, and Flush.                  *)
(***************************************************************************)
\* Variant that goes on to poll whatever createTask returned.
GenerateIgnoringCreateError(t, op, outcome) ==
    /\ call[t].pc = "idle"
    /\ ncalls < MaxCalls
    /\ ncalls' = ncalls + 1
    /\ call' = [call EXCEPT ![t] =
                  [IdleCall EXCEPT !.pc = "polling", !.id = ncalls + 1, !.op = op,
                                   !.created = (outcome = NoError)]]
    /\ UNCHANGED <<auxVars, pollVars, dispVars, unit, spawned, wg, flushPc, flushSeen>>

\* Lines 116-129 (174-188, 234-247): the call starts and creates the task;
\* a creation failure returns (nil, err).
Generate(t, op, outcome) ==
    /\ call[t].pc = "idle"
    /\ ncalls < MaxCalls
    /\ ncalls' = ncalls + 1
    /\ call' = [call EXCEPT ![t] =
                  IF outcome = NoError
                  THEN [IdleCall EXCEPT !.pc = "polling", !.id = ncalls + 1,
                                        !.op = op, !.created = TRUE]
                  ELSE [IdleCall EXCEPT !.pc = "returned", !.id = ncalls + 1,
                                        !.op = op, !.err = outcome]]
    /\ UNCHANGED <<auxVars, pollVars, dispVars, unit, spawned, wg, flushPc, flushSeen>>

\* Lines 131-162: WaitForTaskCompletion under the default policy, run on the
\* caller's goroutine to its return, then the error check and the result.
AwaitCompletion(t, outcome) ==
    /\ call[t].pc = "polling"
    /\ call' = [call EXCEPT ![t] = AfterPoll(call[t], outcome)]
    /\ UNCHANGED <<auxVars, pollVars, dispVars, ncalls, unit, spawned, wg, flushPc, flushSeen>>

\* Line 165: r.wg.Add(1).
AddToWaitGroup(t) ==
    /\ call[t].pc = "built"
    /\ wg' = WgAdd(wg, 1)
    /\ call' = [call EXCEPT ![t].pc = "added"]
    /\ UNCHANGED <<auxVars, pollVars, dispVars, ncalls, unit, spawned, flushPc, flushSeen>>

\* Lines 166-169: the go statement starts the dispatch unit.
SpawnDispatch(t) ==
    /\ call[t].pc = "added"
    /\ unit' = [unit EXCEPT ![call[t].id] = "running"]
    /\ spawned' = [spawned EXCEPT ![call[t].id] = @ + 1]
    /\ call' = [call EXCEPT ![t].pc = "spawned"]
    /\ UNCHANGED <<auxVars, pollVars, dispVars, ncalls, wg, flushPc, flushSeen>>

\* Line 171: return result, nil.
ReturnResult(t) ==
    /\ call[t].pc = "spawned"
    /\ call' = [call EXCEPT ![t].pc = "returned"]
    /\ UNCHANGED <<auxVars, pollVars, dispVars, ncalls, unit, spawned, wg, flushPc, flushSeen>>

\* The caller is done with what the call returned and may call again, with
\* a fresh context.
CallerContinues(t) ==
    /\ call[t].pc = "returned"
    /\ call' = [call EXCEPT ![t] = IdleCall]
    /\ cctx' = [cctx EXCEPT ![t] = FALSE]
    /\ UNCHANGED <<auxVars, pollVars, send, logged, crashed, ncalls, unit, spawned, wg,
                   flushPc, flushSeen>>

\* Lines 166-169 and 285-295: sendMetering ends (any failure or panic is
\* logged inside it) and the deferred r.wg.Done() runs.
DispatchDone(k) ==
    /\ unit[k] = "running"
    /\ unit' = [unit EXCEPT ![k] = "done"]
    /\ wg' = WgDone(wg)
    /\ UNCHANGED <<auxVars, pollVars, dispVars, call, ncalls, spawned, flushPc, flushSeen>>

\* Lines 299-301: Flush is called ...
FlushCall ==
    /\ flushPc \in {"idle", "returned"}
    /\ flushPc' = "waiting"
    /\ flushSeen' = {k \in CallIds : unit[k] # "none"}
    /\ UNCHANGED <<auxVars, pollVars, dispVars, call, ncalls, unit, spawned, wg>>

\* ... and r.wg.Wait() returns.
FlushReturn ==
    /\ flushPc = "waiting"
    /\ WgWaitReturns(wg)
    /\ flushPc' = "returned"
    /\ UNCHANGED <<auxVars, pollVars, dispVars, call, ncalls, unit, spawned, wg, flushSeen>>

Next ==
    \/ \E t \in Callers :
          /\ call[t].pc = "idle"
          /\ \E op \in Operations, outcome \in CreateOutcomes :
                Generate(t, op, outcome)
    \/ \E t \in Callers :
          /\ call[t].pc = "polling"
          /\ \E outcome \in DefaultPollOutcomes : AwaitCompletion(t, outcome)
    \/ \E t \in Callers : AddToWaitGroup(t)
    \/ \E t \in Callers : SpawnDispatch(t)
    \/ \E t \in Callers : ReturnResult(t)
    \/ \E t \in Callers : CallerContinues(t)
    \/ \E k \in CallIds : DispatchDone(k)
    \/ FlushCall
    \/ FlushReturn

Spec == Init /\ [][Next]_vars

(***************************************************************************)
(* SpecDispatch: one generate call, its dispatch unit run step by step on  *)
(* its own goroutine, the caller's context, and Flush.                     *)
(***************************************************************************)
\* Variant that hands the caller's context to sendMetering.
CallerCtxDone == \E t \in Callers : cctx[t]

\* The context handed to sendMetering is context.Background(): never done.
BackgroundDone == FALSE

\* The caller cancels the context of its call once polling has returned
\* (a cancellation during polling is part of the outcome of the poll).
CancelCallerCtx(t) ==
    /\ call[t].pc \in {"built", "added", "spawned", "returned"}
    /\ cctx[t] = FALSE
    /\ cctx' = [cctx EXCEPT ![t] = TRUE]
    /\ UNCHANGED <<auxVars, pollVars, orchVars, send, logged, crashed>>

\* The result the unit of call k meters: the succeeded task of that call,
\* built at the one moment of the clock.
TaskIdOf(k) == "task-" \o ToString(k)
DispatchTime == CHOOSE now \in Clock : TRUE
DispatchedResult(k) ==
    VideoGenerationResult(TaskIdOf(k), TaskStatusSucceeded,
                          CHOOSE elapsed \in ElapsedTimes : TRUE, "gen3a_turbo",
                          "requestedDuration" :> IntValue(5))

\* middleware.go line 168 and lines 39-43 of the metering client: the unit
\* enters sendMetering, builds the payload and starts sendWithRetry.
UnitStart(k, script) ==
    /\ unit[k] = "running"
    /\ send[k].pc = "idle"
    /\ send' = [send EXCEPT ![k] =
                    SendVideoMeteringInit(DispatchedResult(k), NilUsageMetadata,
                                          DispatchTime, script)]
    /\ UNCHANGED <<auxVars, pollVars, orchVars, logged, crashed, cctx>>

UnitLoopHead(k) ==
    /\ send[k].pc = "loop"
    /\ send' = [send EXCEPT ![k] = SendLoopHead(send[k])]
    /\ UNCHANGED <<auxVars, pollVars, orchVars, logged, crashed, cctx>>

UnitSleep(k) ==
    /\ send[k].pc = "sleep"
    /\ send' = [send EXCEPT ![k] = SendSleep(send[k])]
    /\ UNCHANGED <<auxVars, pollVars, orchVars, logged, crashed, cctx>>

UnitRequest(k) ==
    /\ send[k].pc = "request"
    /\ send' = [send EXCEPT ![k] = SendRequest(send[k], BackgroundDone)]
    /\ ledger' = [ledger EXCEPT ![k] =
                      EndpointReceives(@, send[k], BackgroundDone)]
    /\ UNCHANGED <<meter, globVars, pollVars, orchVars, logged, crashed, cctx>>

UnitPanics(k) ==
    /\ send[k].pc \in {"loop", "sleep", "request"}
    /\ send' = [send EXCEPT ![k] = SendPanic(send[k])]
    /\ UNCHANGED <<auxVars, pollVars, orchVars, logged, crashed, cctx>>

\* middleware.go lines 285-295 and 167: sendMetering logs and returns, then
\* the deferred r.wg.Done() runs and the goroutine ends.
UnitReturns(k) ==
    /\ unit[k] = "running"
    /\ send[k].pc \in {"done", "panicked"}
    /\ logged' = [logged EXCEPT ![k] = SendMeteringEnd(send[k]).log]
    /\ crashed' = (crashed \/ SendMeteringEnd(send[k]).crashed)
    /\ wg' = WgDone(wg)
    /\ unit' = [unit EXCEPT ![k] = "done"]
    /\ UNCHANGED <<auxVars, pollVars, call, ncalls, spawned, flushPc, flushSeen, send, cctx>>

\* The one generate call of this specification.
FirstCaller == "A"
GenerateOnce(t, op, outcome) == ncalls = 0 /\ Generate(t, op, outcome)

DispatchNext ==
    \/ \E op \in Operations, outcome \in CreateOutcomes :
          GenerateOnce(FirstCaller, op, outcome)
    \/ /\ call[FirstCaller].pc = "polling"
       /\ \E outcome \in DispatchPollOutcomes :
             AwaitCompletion(FirstCaller, outcome)
    \/ AddToWaitGroup(FirstCaller)
    \/ SpawnDispatch(FirstCaller)
    \/ ReturnResult(FirstCaller)
    \/ CallerContinues(FirstCaller)
    \/ CancelCallerCtx(FirstCaller)
    \/ \E k \in CallIds :
          /\ send[k].pc = "idle"
          /\ \E script \in SendScripts : UnitStart(k, script)
    \/ \E k \in CallIds : UnitLoopHead(k)
    \/ \E k \in CallIds : UnitSleep(k)
    \/ \E k \in CallIds : UnitRequest(k)
    \/ \E k \in CallIds : UnitPanics(k)
    \/ \E k \in CallIds : UnitReturns(k)
    \/ FlushCall
    \/ FlushReturn

SpecDispatch == Init /\ [][DispatchNext]_vars

(***************************************************************************)
(* SpecDispatchFair: one generate call, its dispatch unit and Flush, under *)
(* the assumption that goroutines keep running: a caller that has          *)
(* incremented the counter reaches its go statement, a dispatch unit takes *)
(* its next step (time.Sleep returns, a request returns at the latest when *)
(* the metering HTTP client's 10 s timeout fails it), and a Flush whose    *)
(* wait can return does return.                                            *)
(***************************************************************************)
\* The endpoint answers each of the up to three requests in any way.
FairScripts == {s \in SeqsUpTo(EndpointResponses, maxRetries) : Len(s) >= 1}

UnitProgress(k) ==
    \/ \E script \in FairScripts : UnitStart(k, script)
    \/ UnitLoopHead(k)
    \/ UnitSleep(k)
    \/ UnitRequest(k)
    \/ UnitReturns(k)

\* DispatchNext without the steps of the caller after its call returned.
DispatchFairNext ==
    \/ \E op \in Operations, outcome \in CreateOutcomes :
          GenerateOnce(FirstCaller, op, outcome)
    \/ /\ call[FirstCaller].pc = "polling"
       /\ \E outcome \in DispatchPollOutcomes :
             AwaitCompletion(FirstCaller, outcome)
    \/ AddToWaitGroup(FirstCaller)
    \/ SpawnDispatch(FirstCaller)
    \/ ReturnResult(FirstCaller)
    \/ \E k \in CallIds :
          /\ send[k].pc = "idle"
          /\ \E script \in FairScripts : UnitStart(k, script)
    \/ \E k \in CallIds : UnitLoopHead(k)
    \/ \E k \in CallIds : UnitSleep(k)
    \/ \E k \in CallIds : UnitRequest(k)
    \/ \E k \in CallIds : UnitPanics(k)
    \/ \E k \in CallIds : UnitReturns(k)
    \/ FlushCall
    \/ FlushReturn

SpecDispatchFair ==
    /\ Init
    /\ [][DispatchFairNext]_vars
    /\ WF_vars(SpawnDispatch(FirstCaller))
    /\ \A k \in CallIds : WF_vars(UnitProgress(k))
    /\ WF_vars(FlushReturn)

(***************************************************************************)
(* SpecPayload: usage records are built, from results passed directly to   *)
(* the metering client and from the results of generate operations.        *)
(***************************************************************************)
\* SendVideoMetering, line 40: the payload of a result and caller metadata.
BuildPayload(result, metadata, now) ==
    /\ meter.pc = "idle"
    /\ meter' = [pc |-> "built", op |-> Nil, asked |-> NilRequest,
                 created |-> NilRequest, result |-> result,
                 metadata |-> metadata, now |-> now,
                 payload |-> buildMeteringPayload(result, metadata, now)]
    /\ UNCHANGED <<ledger, globVars, pollVars, orchVars, dispVars>>

\* A generate operation from its request to the payload of its dispatch
\* unit: default model, task creation, final status, result, payload.
MeterOperation(op, req, taskId, statusResp, metadata, elapsed, now) ==
    /\ meter.pc = "idle"
    /\ LET sent == WithDefaultModel(op, req)
           result == OperationResult(op, sent, taskId, statusResp, elapsed)
       IN  meter' = [pc |-> "built", op |-> op, asked |-> req,
                     created |-> sent, result |-> result,
                     metadata |-> metadata, now |-> now,
                     payload |-> buildMeteringPayload(result, metadata, now)]
    /\ UNCHANGED <<ledger, globVars, pollVars, orchVars, dispVars>>

\* The dispatch unit ends and the next record can be built.
MeterDone ==
    /\ meter.pc = "built"
    /\ meter' = IdleMeter
    /\ UNCHANGED <<ledger, globVars, pollVars, orchVars, dispVars>>

PayloadNext ==
    \/ /\ meter.pc = "idle"
       /\ \E result \in ResultInputs, metadata \in UsageMetadataInputs,
             now \in Clock :
            BuildPayload(result, metadata, now)
    \/ /\ meter.pc = "idle"
       /\ \E op \in Operations, taskId \in TaskIds,
             statusResp \in StatusResponseInputs,
             metadata \in UsageMetadataInputs, elapsed \in ElapsedTimes,
             now \in Clock :
            \E req \in RequestInputs(op) :
                MeterOperation(op, req, taskId, statusResp, metadata, elapsed, now)
    \/ MeterDone

SpecPayload == Init /\ [][PayloadNext]_vars

(***************************************************************************)
(* SpecDelivery: one delivery (SendVideoMetering) against an accounting    *)
(* endpoint that may store a record and lose its acknowledgment.           *)
(***************************************************************************)
DeliveryScripts ==
    {s \in SeqsUpTo(EndpointResponses \cup {AckLost}, maxRetries) : Len(s) >= 1}
DeliveryResults ==
    {[DispatchedResult(k) EXCEPT !.Status = status, !.Error = e] :
        k \in CallIds, status \in {TaskStatusSucceeded, TaskStatusFailed},
        e \in ProviderErrors}
DeliveryMetadata ==
    {NilUsageMetadata, [ZeroUsageMetadata EXCEPT !.OrganizationID = "acme"]}
FirstUnit == 1

\* Lines 39-43: the payload is built and sendWithRetry starts.
SendVideoMetering(k, result, metadata, now, script) ==
    /\ send[k].pc = "idle"
    /\ send' = [send EXCEPT ![k] =
                    SendVideoMeteringInit(result, metadata, now, script)]
    /\ UNCHANGED <<auxVars, pollVars, orchVars, logged, crashed, cctx>>

DeliveryNext ==
    \/ /\ send[FirstUnit].pc = "idle"
       /\ \E result \in DeliveryResults, metadata \in DeliveryMetadata,
             now \in Clock, script \in DeliveryScripts :
            SendVideoMetering(FirstUnit, result, metadata, now, script)
    \/ UnitLoopHead(FirstUnit)
    \/ UnitSleep(FirstUnit)
    \/ UnitRequest(FirstUnit)

SpecDelivery == Init /\ [][DeliveryNext]_vars

(***************************************************************************)
(* SpecRetry: one delivery by a metering client whose configuration may    *)
(* lack the Revenium API key, of a record that may hold a value json       *)
(* cannot encode, against an endpoint that may answer 1xx and 3xx.         *)
(***************************************************************************)
RetryScripts ==
    {s \in SeqsUpTo(RetryableResponses
                        \cup {StatusSwitchingProtocols, StatusFound, StatusOK,
                              StatusBadRequest},
                    maxRetries) : Len(s) >= 1}
RetryMetadata ==
    {NilUsageMetadata,
     [ZeroUsageMetadata EXCEPT !.Custom = ("progress" :> ChanValue)]}
APIKeys == {"", ConfiguredAPIKey}

\* Lines 39-43, on a client with the given key.
SendVideoMeteringWithKey(k, apiKey, metadata, script) ==
    /\ send[k].pc = "idle"
    /\ send' = [send EXCEPT ![k] =
                    [SendVideoMeteringInit(DispatchedResult(k), metadata,
                                           DispatchTime, script)
                        EXCEPT !.apiKey = apiKey]]
    /\ UNCHANGED <<auxVars, pollVars, orchVars, logged, crashed, cctx>>

RetryNext ==
    \/ /\ send[FirstUnit].pc = "idle"
       /\ \E apiKey \in APIKeys, metadata \in RetryMetadata, script \in RetryScripts :
            SendVideoMeteringWithKey(FirstUnit, apiKey, metadata, script)
    \/ UnitLoopHead(FirstUnit)
    \/ UnitSleep(FirstUnit)
    \/ UnitRequest(FirstUnit)

SpecRetry == Init /\ [][RetryNext]_vars

(***************************************************************************)
(* Close and Reset (middleware.go), run by one goroutine of their own.     *)
(***************************************************************************)
\* The dispatch units counted in r.wg that have not finished: spawned and
\* running, or added and about to be spawned.
PendingUnits ==
    {k \in CallIds : unit[k] = "running"} \cup
    {call[t].id : t \in {u \in Callers : call[u].pc = "added"}}

\* Lines 305-307: Close is called on the client and enters Flush.
CloseCall ==
    /\ closer.pc \in {"idle", "returned"}
    /\ closer' = [closer EXCEPT !.pc = "waiting", !.via = "Close",
                                !.seen = PendingUnits]
    /\ UNCHANGED <<meter, ledger, lastCall, env, glob, lastInit, pollVars, orchVars, dispVars>>

\* Lines 323-328: Reset takes globalMu and, when there is a global client,
\* calls its Close; without one it clears initialized and returns.
ResetCall ==
    /\ closer.pc \in {"idle", "returned"}
    /\ glob.mu = "free"
    /\ IF glob.client # NilClient
       THEN /\ glob' = [glob EXCEPT !.mu = "Reset"]
            /\ closer' = [closer EXCEPT !.pc = "waiting", !.via = "Reset",
                                        !.seen = PendingUnits]
       ELSE /\ glob' = [glob EXCEPT !.initialized = FALSE]
            /\ closer' = [closer EXCEPT !.pc = "returned", !.via = "Reset",
                                        !.seen = {}]
    /\ UNCHANGED <<meter, ledger, lastCall, env, lastInit, pollVars, orchVars, dispVars>>

\* Line 307: the Flush inside Close returns.
CloseFlushReturns ==
    /\ closer.pc = "waiting"
    /\ CloseWaits(wg)
    /\ closer' = [closer EXCEPT !.pc = "closing"]
    /\ UNCHANGED <<meter, ledger, lastCall, env, glob, lastInit, pollVars, orchVars, dispVars>>

\* Lines 309-319: the underlying clients are closed and Close returns; in
\* Reset, lines 329-332 then drop the global client and release globalMu.
CloseClients ==
    /\ closer.pc = "closing"
    /\ closer' = [closer EXCEPT !.pc = "returned", !.closed = TRUE]
    /\ glob' = IF closer.via = "Reset"
               THEN [glob EXCEPT !.client = NilClient, !.initialized = FALSE,
                                 !.mu = "free"]
               ELSE glob
    /\ UNCHANGED <<meter, ledger, lastCall, env, lastInit, pollVars, orchVars, dispVars>>

(***************************************************************************)
(* SpecInit: the environment changes, Initialize and Reset are called.     *)
(***************************************************************************)
Setenv(name, value) ==
    /\ Getenv(env, name) # value
    /\ env' = Assign(env, name :> value)
    /\ UNCHANGED <<meter, ledger, lastCall, glob, lastInit, closer, pollVars, orchVars, dispVars>>

Unsetenv(name) ==
    /\ name \in DOMAIN env
    /\ env' = [k \in DOMAIN env \ {name} |-> env[k]]
    /\ UNCHANGED <<meter, ledger, lastCall, glob, lastInit, closer, pollVars, orchVars, dispVars>>

\* Lines 26-66: Initialize runs under globalMu.
Initialize(opts, dotenv) ==
    /\ glob.mu = "free"
    /\ LET r == InitializeResult(glob, opts, env, dotenv)
       IN  /\ glob' = r.glob
           /\ env' = IF r.ran THEN loadEnvFiles(env, dotenv) ELSE env
           /\ lastInit' = [called |-> TRUE, opts |-> opts,
                           env |-> IF r.ran THEN loadEnvFiles(env, dotenv) ELSE env,
                           ran |-> r.ran, cfg |-> r.cfg, err |-> r.err]
    /\ UNCHANGED <<meter, ledger, lastCall, closer, pollVars, orchVars, dispVars>>

\* Lines 76-85: GetClient runs under globalMu's read lock.
CallGetClient ==
    /\ glob.mu = "free"
    /\ lastCall' = [fn |-> "GetClient", client |-> GetClient(glob).client,
                    err |-> GetClient(glob).err]
    /\ UNCHANGED <<meter, ledger, env, glob, lastInit, closer, pollVars, orchVars,
                   dispVars>>

InitNext ==
    \/ CallGetClient
    \/ \E name \in EnvNames : \E value \in EnvValues[name] : Setenv(name, value)
    \/ \E name \in EnvNames : Unsetenv(name)
    \/ \E opts \in OptionInputs, dotenv \in DotenvInputs : Initialize(opts, dotenv)
    \/ ResetCall
    \/ CloseFlushReturns
    \/ CloseClients

SpecInit == Init /\ [][InitNext]_vars

(***************************************************************************)
(* SpecClose: a caller generates on the global client while another        *)
(* goroutine calls Close on it or Reset.                                   *)
(***************************************************************************)
\* The state after Initialize() has succeeded from the environment.
InitializedEnv ==
    ("RUNWAY_API_KEY" :> "rw_env") @@ ("REVENIUM_METERING_API_KEY" :> "hak_env")
GlobalsInitialized ==
    LET r == InitializeResult(ZeroGlobals, <<>>, InitializedEnv, EmptyMap)
    IN  /\ env = InitializedEnv
        /\ glob = r.glob
        /\ lastInit = [called |-> TRUE, opts |-> <<>>, env |-> InitializedEnv,
                       ran |-> r.ran, cfg |-> r.cfg, err |-> r.err]
        /\ closer = IdleCloser
        /\ lastCall = NoCall

InitClose ==
    /\ PollerIdle /\ OrchestratorIdle /\ DispatchIdle /\ MeterIdle
    /\ LedgerEmpty /\ GlobalsInitialized

CloseNext ==
    \/ /\ call[FirstCaller].pc = "idle"
       /\ \E op \in Operations, outcome \in CreateOutcomes :
             Generate(FirstCaller, op, outcome)
    \/ /\ call[FirstCaller].pc = "polling"
       /\ \E outcome \in DispatchPollOutcomes :
             AwaitCompletion(FirstCaller, outcome)
    \/ AddToWaitGroup(FirstCaller)
    \/ SpawnDispatch(FirstCaller)
    \/ ReturnResult(FirstCaller)
    \/ CallerContinues(FirstCaller)
    \/ \E k \in CallIds : DispatchDone(k)
    \/ CloseCall
    \/ ResetCall
    \/ CloseFlushReturns
    \/ CloseClients

SpecClose == InitClose /\ [][CloseNext]_vars

(***************************************************************************)
(* SpecConfig: the configuration functions are called on configurations    *)
(* and base URLs.                                                          *)
(***************************************************************************)
CallValidate(cfg) ==
    /\ lastCall' = [fn |-> "Validate", cfg |-> cfg, err |-> Validate(cfg)]
    /\ UNCHANGED <<meter, ledger, env, glob, lastInit, closer, pollVars, orchVars,
                   dispVars>>

CallNewReveniumRunway(cfg) ==
    /\ lastCall' = [fn |-> "NewReveniumRunway", cfg |-> cfg,
                    client |-> NewReveniumRunway(cfg).client,
                    err |-> NewReveniumRunway(cfg).err]
    /\ UNCHANGED <<meter, ledger, env, glob, lastInit, closer, pollVars, orchVars,
                   dispVars>>

CallNormalizeReveniumBaseURL(baseURL) ==
    /\ lastCall' = [fn |-> "NormalizeReveniumBaseURL", baseURL |-> baseURL,
                    url |-> NormalizeReveniumBaseURL(baseURL)]
    /\ UNCHANGED <<meter, ledger, env, glob, lastInit, closer, pollVars, orchVars,
                   dispVars>>

ConfigNext ==
    \/ \E cfg \in ConfigInputs : CallValidate(cfg)
    \/ \E cfg \in ConfigInputs \cup {NilConfig} : CallNewReveniumRunway(cfg)
    \/ \E baseURL \in URLInputs : CallNormalizeReveniumBaseURL(baseURL)

SpecConfig == Init /\ [][ConfigNext]_vars






(***************************************************************************)
(* Properties of the orchestrator, checked under Spec.                     *)
(***************************************************************************)
Returned(t) == call[t].pc = "returned"

\* C1: when task creation succeeds and polling observes the terminal status
\* FAILED or CANCELED, the generate call returns a non-nil result carrying
\* that status and spawns one dispatch unit for it.
C1_FailedStillDispatched ==
    \A t \in Callers :
        (Returned(t) /\ call[t].created
            /\ call[t].polled \in {TaskStatusFailed, TaskStatusCanceled})
        => /\ call[t].result # NilResult
           /\ call[t].result.Status = call[t].polled
           /\ spawned[call[t].id] = 1

\* C2: Flush returns only when every dispatch unit spawned before the Flush
\* call has finished.
C2_FlushWaitsForSpawned ==
    flushPc = "returned" => \A k \in flushSeen : unit[k] = "done"

C2_Witness ==
    /\ flushPc = "returned"
    /\ Cardinality(flushSeen) >= 2
    /\ \A k \in flushSeen : unit[k] = "done"

\* C3: a generate call that returns a result spawns exactly one dispatch
\* unit, only after its result has been built; the counter is incremented
\* before the unit starts; the call returns without waiting for the unit.
C3_OneDispatchPerResult ==
    /\ \A k \in CallIds : spawned[k] <= 1
    /\ \A t \in Callers :
          /\ (Returned(t) /\ call[t].result # NilResult) => spawned[call[t].id] = 1
          /\ (call[t].id # 0 /\ spawned[call[t].id] > 0)
                => (call[t].result # NilResult /\ call[t].pc \in {"spawned", "returned"})
    /\ wg >= Cardinality({k \in CallIds : unit[k] = "running"})

C3_Witness ==
    \E t \in Callers :
        /\ Returned(t)
        /\ call[t].result # NilResult
        /\ unit[call[t].id] = "running"
        /\ wg >= 1

\* C4: when task creation fails the generate call returns that error, makes
\* no status lookup and spawns no dispatch unit; the counter is unchanged.
C4_CreateFailureAborts ==
    /\ [](\A t \in Callers :
            (Returned(t) /\ ~call[t].created)
            => /\ call[t].err \in CreateErrors
               /\ call[t].result = NilResult
               /\ call[t].polled = Nil
               /\ call[t].lookups = 0
               /\ spawned[call[t].id] = 0
               /\ unit[call[t].id] = "none")
    /\ [][\A t \in Callers :
            (call[t].pc = "idle" /\ call'[t].pc = "returned")
            => (wg' = wg /\ spawned' = spawned /\ unit' = unit)]_vars

C4_Witness ==
    \E t \in Callers :
        /\ Returned(t)
        /\ ~call[t].created
        /\ call[t].err = NewNetworkError("HTTP request failed")
        /\ wg >= 1

\* C5: when polling ends without a terminal status (timeout, attempt
\* exhaustion, cancellation) the generate call returns an error and no
\* result, and no dispatch unit is spawned.
C5_PollFailureAborts ==
    \A t \in Callers :
        (Returned(t) /\ call[t].created /\ call[t].polled = Nil)
        => /\ call[t].result = NilResult
           /\ call[t].err \in {ErrPollTimeout, ErrMaxAttempts, CtxErr}
           /\ spawned[call[t].id] = 0
           /\ unit[call[t].id] = "none"

C5_Witness ==
    \E t, u \in Callers :
        /\ Returned(t) /\ call[t].created /\ call[t].err = ErrPollTimeout
        /\ Returned(u) /\ call[u].created /\ call[u].err = CtxErr
        /\ wg = 0

(***************************************************************************)
(* Properties of the poller, checked under SpecPoll.                       *)
(***************************************************************************)
PollDone == poll.pc = "done"
NoTimeout == poll.elapsed <= poll.policy.Timeout

\* k non-terminal statuses followed by SUCCEEDED.
ThenSucceeded(script) ==
    /\ script[Len(script)] = TaskStatusSucceeded
    /\ \A i \in 1..(Len(script) - 1) : script[i] \in NonTerminalStatuses

AlwaysRunning(script) == \A i \in 1..Len(script) : script[i] = TaskStatusRunning
NeverTerminal(script) == \A i \in 1..Len(script) : script[i] \notin TerminalStatuses

\* C6: for a status source that returns k non-terminal statuses and then
\* SUCCEEDED, with k < maxAttempts and no timeout, the poller makes exactly
\* k+1 lookups and returns SUCCEEDED with no error; no lookup follows a
\* terminal status.
C6_LookupsUntilSucceeded ==
    /\ (PollDone /\ ~pctx /\ NoTimeout /\ ThenSucceeded(poll.script)
            /\ Len(poll.script) - 1 < poll.policy.MaxAttempts)
        => /\ poll.lookups = Len(poll.script)
           /\ poll.status = TaskStatusSucceeded
           /\ poll.err = NoError
    /\ ~pctx => \A i \in 1..(poll.lookups - 1) :
                    SourceAt(poll.script, i) \notin TerminalStatuses

C6_Witness ==
    /\ PollDone
    /\ ~pctx
    /\ poll.script = <<TaskStatusRunning, TaskStatusRunning, TaskStatusSucceeded>>
    /\ poll.policy = SmallPollingConfig(3)
    /\ poll.lookups = 3
    /\ poll.status = TaskStatusSucceeded

\* C7: the number of lookups never exceeds maxAttempts; with maxAttempts = N
\* >= 1, no timeout and a source that always returns RUNNING the poller
\* makes exactly N lookups and then fails with a TaskError.
C7_AttemptCeiling ==
    /\ poll.pc # "idle" /\ poll.policy.MaxAttempts >= 0
        => poll.lookups <= poll.policy.MaxAttempts
    /\ (PollDone /\ ~pctx /\ NoTimeout /\ AlwaysRunning(poll.script)
            /\ poll.policy.MaxAttempts >= 1)
        => /\ poll.lookups = poll.policy.MaxAttempts
           /\ poll.status = Nil
           /\ IsTaskError(poll.err)
           /\ poll.err = ErrMaxAttempts

C7_Witness ==
    /\ PollDone
    /\ ~pctx
    /\ AlwaysRunning(poll.script)
    /\ poll.policy = SmallPollingConfig(3)
    /\ poll.lookups = 3
    /\ poll.attempts = 4
    /\ poll.err = ErrMaxAttempts

DefaultNegligibleLatencyRun ==
    /\ PollDone
    /\ ~pctx
    /\ poll.policy = DefaultPollingConfig
    /\ poll.lat = 0
    /\ NeverTerminal(poll.script)

\* C8 as stated: under the default policy, with a source that never returns
\* a terminal status and negligible lookup latency, the poller ends with the
\* timeout error before the attempt count reaches maxAttempts.
C8_TimeoutFiresFirst ==
    DefaultNegligibleLatencyRun
        => (poll.err = ErrPollTimeout /\ poll.attempts <= poll.policy.MaxAttempts)

\* C8 amended: under the default policy, with a source that never returns a
\* terminal status and negligible lookup latency, the backoff sleeps stay
\* below the 20-minute timeout and the poller ends with the max-attempts
\* TaskError after exactly 120 lookups.
C8_AttemptCeilingFiresFirst ==
    DefaultNegligibleLatencyRun
        => /\ poll.err = ErrMaxAttempts
           /\ poll.lookups = poll.policy.MaxAttempts
           /\ poll.attempts = poll.policy.MaxAttempts + 1
           /\ poll.elapsed < poll.policy.Timeout

C8_Witness ==
    /\ DefaultNegligibleLatencyRun
    /\ AlwaysRunning(poll.script)
    /\ poll.lookups = 120
    /\ poll.elapsed = 1176250
    /\ poll.err = ErrMaxAttempts

\* At a loop entry with the cancellation signal set.
CancelledLoopEntry == poll.pc = "check" /\ pctx /\ poll' # poll

\* C9 as stated: the loop-entry checks run cancellation first, so a poller
\* whose cancellation signal is set at a loop entry returns the cancellation
\* outcome with no further lookup, even if the timeout or the attempt budget
\* is exhausted too.
C9_CancellationFirst ==
    [][CancelledLoopEntry
        => (poll'.pc = "done" /\ poll'.err = CtxErr
                /\ poll'.lookups = poll.lookups)]_vars

\* C9 amended: the loop-entry checks run in the order timeout, attempt
\* budget, cancellation, then the lookup; a poller whose cancellation signal
\* is set at a loop entry returns there with no further lookup, with the
\* timeout error if the timeout has passed, else the max-attempts error if
\* the budget is used up, else the cancellation outcome.
C9_CancellationLast ==
    [][CancelledLoopEntry
        => /\ poll'.pc = "done"
           /\ poll'.status = Nil
           /\ poll'.lookups = poll.lookups
           /\ poll'.sleeps = poll.sleeps
           /\ poll'.err =
                IF poll.elapsed > poll.policy.Timeout THEN ErrPollTimeout
                ELSE IF poll.attempts + 1 > poll.policy.MaxAttempts THEN ErrMaxAttempts
                ELSE CtxErr]_vars

\* A loop entry reached after the last allowed lookup, with the signal set.
C9_Witness ==
    /\ poll.pc = "check"
    /\ pctx
    /\ poll.policy = SmallPollingConfig(2)
    /\ poll.attempts = 2
    /\ poll.lookups = 2
    /\ poll.sleeps = 2

\* C10: if the cancellation signal is already set when WaitForTaskCompletion
\* is called (timeout > 0, maxAttempts >= 1) the poller returns a
\* cancellation error at once, with zero lookups and no sleep.
C10_CancelledBeforeFirstLookup ==
    [][(poll.pc = "check" /\ poll.attempts = 0 /\ pctx /\ poll' # poll
            /\ poll.policy.Timeout > 0 /\ poll.policy.MaxAttempts >= 1)
        => /\ poll'.pc = "done"
           /\ poll'.err = CtxErr
           /\ poll'.status = Nil
           /\ poll'.lookups = 0
           /\ poll'.sleeps = 0
           /\ poll'.elapsed = 0]_vars

C10_Witness ==
    /\ PollDone
    /\ pctx
    /\ poll.steps = 1
    /\ poll.err = CtxErr
    /\ poll.lookups = 0
    /\ poll.sleeps = 0
    /\ poll.policy.MaxAttempts >= 1

FailedOrCanceled == {TaskStatusFailed, TaskStatusCanceled}

\* C11: a lookup that returns FAILED or CANCELED makes the poller return at
\* once with that status and a TaskError; the FAILED message wraps the
\* provider's error message, or a placeholder when there is none; no sleep
\* and no further lookup follows.
C11_TerminalFailureReturnsAtOnce ==
    /\ [](PollDone /\ poll.status \in FailedOrCanceled
            => /\ poll.status = SourceAt(poll.script, poll.lookups)
               /\ IsTaskError(poll.err)
               /\ poll.err.msg =
                    IF poll.status = TaskStatusCanceled THEN "task was canceled"
                    ELSE IF poll.providerError = Nil
                         THEN "task failed: unknown error"
                         ELSE "task failed: " \o poll.providerError
               /\ poll.sleeps = poll.lookups - 1
               /\ poll.attempts = poll.lookups)
    /\ [][(poll.pc = "lookup" /\ ~pctx /\ poll' # poll
              /\ SourceAt(poll.script, poll.lookups + 1) \in FailedOrCanceled)
          => /\ poll'.pc = "done"
             /\ poll'.status = SourceAt(poll.script, poll.lookups + 1)
             /\ poll'.sleeps = poll.sleeps]_vars
    /\ [][PollDone => poll' = poll]_vars

C11_Witness ==
    /\ PollDone
    /\ poll.status = TaskStatusFailed
    /\ poll.providerError = "insufficient credits"
    /\ poll.err = NewTaskError("task failed: insufficient credits")
    /\ poll.lookups = 3
    /\ poll.sleeps = 2

AlwaysFailing(script) == \A i \in 1..Len(script) : script[i] = LookupFailed

\* C12: a failed status lookup never ends the poller with the lookup's own
\* error: the loop goes on, the failed lookup having used one attempt; with
\* maxAttempts = N >= 1 and a source whose lookups always fail the poller
\* makes exactly N lookups and ends with the max-attempts TaskError, or ends
\* earlier with the timeout TaskError.
C12_LookupFailureContinues ==
    /\ [](PollDone => poll.err.type \notin {ErrorTypeNetwork, ErrorTypeProvider})
    /\ [](poll.pc \in {"sleep", "sleep_err"} => poll.attempts = poll.lookups)
    /\ []((PollDone /\ ~pctx /\ AlwaysFailing(poll.script)
              /\ poll.policy.MaxAttempts >= 1)
            => /\ poll.status = Nil
               /\ IF NoTimeout
                  THEN poll.lookups = poll.policy.MaxAttempts /\ poll.err = ErrMaxAttempts
                  ELSE poll.lookups <= poll.policy.MaxAttempts /\ poll.err = ErrPollTimeout)
    /\ [][(poll.pc = "lookup" /\ poll' # poll
              /\ (pctx \/ SourceAt(poll.script, poll.lookups + 1) = LookupFailed))
          => /\ poll'.pc = "sleep_err"
             /\ poll'.lookups = poll.lookups + 1
             /\ poll'.err = NoError]_vars

C12_Witness ==
    /\ PollDone
    /\ ~pctx
    /\ AlwaysFailing(poll.script)
    /\ poll.policy = SmallPollingConfig(3)
    /\ poll.lookups = 3
    /\ poll.sleeps = 3
    /\ poll.err = ErrMaxAttempts

\* A sleep that follows a non-terminal status.
StatusSleep == poll.pc = "sleep" /\ poll' # poll

\* The interval after a sleep of `interval` under cfg: x1.5, capped.
GrownInterval(interval, next, cfg) ==
    IF 3 * interval > 2 * cfg.MaxInterval THEN next = cfg.MaxInterval
    ELSE 2 * next = 3 * interval

DefaultSleeps == <<2000, 3000, 4500, 6750, 10000, 10000>>
NoFailedLookup(script) == \A i \in 1..Len(script) : script[i] # LookupFailed

BackoffSchedule ==
    /\ [](poll.pc # "idle" /\ poll.sleeps = 0
            => poll.interval = poll.policy.InitialInterval)
    /\ [][poll.pc \in {"sleep", "sleep_err"} /\ poll' # poll
            => poll'.elapsed = poll.elapsed + poll.interval]_vars
    /\ [][StatusSleep
            => /\ GrownInterval(poll.interval, poll'.interval, poll.policy)
               /\ (poll.policy.InitialInterval <= poll.policy.MaxInterval
                      => poll'.interval <= poll.policy.MaxInterval)]_vars
    /\ []((poll.pc \in {"sleep", "check", "lookup"} /\ ~pctx
              /\ poll.policy = DefaultPollingConfig /\ NoFailedLookup(poll.script))
            => poll.interval =
                 DefaultSleeps[IF poll.sleeps < 5 THEN poll.sleeps + 1 ELSE 6])

\* C13 as stated: the sleep starts at initialInterval and after each sleep
\* that follows a non-terminal status becomes min(previous x 1.5,
\* maxInterval); the sequence is non-decreasing and, for initialInterval <=
\* maxInterval, never exceeds maxInterval (default: 2, 3, 4.5, 6.75, 10,
\* 10 s).
C13_BackoffNonDecreasing ==
    /\ BackoffSchedule
    /\ [][StatusSleep => poll'.interval >= poll.interval]_vars

\* C13 amended: the sleep starts at initialInterval and after each sleep
\* that follows a non-terminal status becomes min(previous x 1.5,
\* maxInterval); for initialInterval <= maxInterval the sequence is
\* non-decreasing and never exceeds maxInterval (default: 2, 3, 4.5, 6.75,
\* 10, 10 s); for initialInterval > maxInterval the second sleep is shorter
\* than the first.
C13_BackoffNonDecreasingWhenOrdered ==
    /\ BackoffSchedule
    /\ [][StatusSleep
            => IF poll.policy.InitialInterval <= poll.policy.MaxInterval
               THEN poll'.interval >= poll.interval
               ELSE poll'.interval = poll.policy.MaxInterval]_vars

C13_Witness ==
    /\ poll.policy = DefaultPollingConfig
    /\ ~pctx
    /\ AlwaysRunning(poll.script)
    /\ poll.lat = 0
    /\ poll.sleeps = 6
    /\ poll.elapsed = 36250
    /\ poll.interval = 10000

EndsTerminal(script) == script[Len(script)] \in TerminalStatuses
Min(a, b) == IF a <= b THEN a ELSE b

\* C14 as stated: for a status sequence that ends in a terminal value and a
\* source of negligible latency, the poller returns within
\* min(timeout, maxAttempts x maxInterval) of elapsed time.
C14_ReturnsWithinMin ==
    (PollDone /\ poll.lat = 0 /\ EndsTerminal(poll.script))
        => poll.elapsed <= Min(poll.policy.Timeout,
                               poll.policy.MaxAttempts * poll.policy.MaxInterval)

\* C14 amended: for initialInterval <= maxInterval, a status sequence that
\* ends in a terminal value and a source of negligible latency, the poller
\* returns within min(timeout + maxInterval, maxAttempts x maxInterval) of
\* elapsed time: the timeout is only checked at a loop entry, after the
\* sleep that crossed it.
C14_ReturnsWithinMinPlusOneSleep ==
    (PollDone /\ poll.lat = 0 /\ EndsTerminal(poll.script)
        /\ poll.policy.InitialInterval <= poll.policy.MaxInterval)
        => poll.elapsed <= Min(poll.policy.Timeout + poll.policy.MaxInterval,
                               poll.policy.MaxAttempts * poll.policy.MaxInterval)

C14_Witness ==
    /\ PollDone
    /\ ~pctx
    /\ poll.lat = 0
    /\ poll.policy = TightPollingConfig
    /\ poll.script = <<TaskStatusRunning, TaskStatusRunning, TaskStatusSucceeded>>
    /\ poll.elapsed = 5000
    /\ poll.err = ErrPollTimeout

\* C15 as stated: every error WaitForTaskCompletion returns is a TaskError:
\* timeout, attempt exhaustion, FAILED/CANCELED, and caller cancellation.
C15_EveryErrorIsTaskError ==
    (PollDone /\ poll.err # NoError) => IsTaskError(poll.err)

\* C15 amended: every error WaitForTaskCompletion returns for a timeout, for
\* attempt exhaustion or for a FAILED/CANCELED status is a TaskError; caller
\* cancellation is returned as the context's own error (ctx.Err()), which is
\* not a TaskError.
C15_EveryErrorButCancellationIsTaskError ==
    (PollDone /\ poll.err # NoError)
        => IF poll.err = CtxErr
           THEN pctx /\ poll.status = Nil /\ ~IsTaskError(poll.err)
           ELSE IsTaskError(poll.err)

C15_Witness ==
    /\ PollDone
    /\ pctx
    /\ poll.err = CtxErr
    /\ poll.lookups = 2
    /\ poll.elapsed <= poll.policy.Timeout
    /\ poll.attempts <= poll.policy.MaxAttempts

(***************************************************************************)
(* Properties of the metering dispatcher, checked under SpecDispatch.      *)
(***************************************************************************)
SendDone(k) == send[k].pc = "done"
ResponseAt(k, i) == SourceAt(send[k].script, i)
StartsWith(script, pre) ==
    Len(script) >= Len(pre) /\ SubSeq(script, 1, Len(pre)) = pre

\* C16: sendWithRetry makes at most 3 delivery attempts and none after the
\* first success; for the responses 500, 500, 200 it makes exactly 3
\* attempts and returns no error.
C16_AtMostThreeAttempts ==
    \A k \in CallIds :
        /\ send[k].requests <= 3
        /\ \A i \in 1..(send[k].requests - 1) : ResponseAt(k, i) # StatusOK
        /\ (send[k].requests >= 1 /\ ResponseAt(k, send[k].requests) = StatusOK)
              => (SendDone(k) /\ send[k].err = NoError)
        /\ (SendDone(k) /\ StartsWith(send[k].script, <<500, 500, 200>>))
              => (send[k].requests = 3 /\ send[k].err = NoError)

C16_Witness ==
    \E k \in CallIds :
        /\ unit[k] = "done"
        /\ SendDone(k)
        /\ send[k].script = <<500, 500, 200>>
        /\ send[k].requests = 3
        /\ send[k].err = NoError
        /\ logged[k] = NoLog

\* C17: a 4xx response on any attempt ends the delivery at once with a
\* ValidationError; no further attempt or sleep follows; for the response
\* 400 exactly 1 attempt is made.
C17_ValidationFailureStops ==
    /\ [](\A k \in CallIds :
            /\ (send[k].requests >= 1 /\ ResponseAt(k, send[k].requests) = 400)
                  => /\ SendDone(k)
                     /\ IsValidationError(send[k].err)
                     /\ send[k].err = NewValidationError("metering API returned 400")
                     /\ Len(send[k].sleepLog) = send[k].requests - 1
            /\ (SendDone(k) /\ send[k].script = <<400>>) => send[k].requests = 1)
    /\ [][\A k \in CallIds :
            SendDone(k) => (send'[k] = send[k])]_vars

C17_Witness ==
    \E k \in CallIds :
        /\ unit[k] = "done"
        /\ send[k].script = <<500, 400>>
        /\ send[k].requests = 2
        /\ send[k].sleepLog = <<100>>
        /\ IsValidationError(send[k].err)
        /\ logged[k].err = send[k].err

\* The delivery of unit k made three attempts that all failed retryably.
Exhausted(k) ==
    /\ SendDone(k)
    /\ send[k].requests = 3
    /\ \A i \in 1..3 : ResponseAt(k, i) \in RetryableResponses

CallOf(k) == {t \in Callers : call[t].id = k}

\* C18: when all 3 attempts fail retryably sendWithRetry returns a
\* MeteringError that wraps the failure of the last attempt; the dispatch
\* unit logs that error and it is never returned to the caller of the
\* generate operation.
C18_ExhaustionLoggedNotReturned ==
    /\ [](\A k \in CallIds :
            Exhausted(k)
            => /\ send[k].err =
                    NewMeteringError("metering failed after retries",
                        IF ResponseAt(k, 3) = TransportFailure
                        THEN NewNetworkError("metering request failed")
                        ELSE NewMeteringError("metering API error",
                                              StatusError(ResponseAt(k, 3))))
               /\ unit[k] = "done"
                    => logged[k] = [msg |-> "Failed to send metering data",
                                    err |-> send[k].err]
               /\ \A t \in CallOf(k) :
                    /\ call[t].err = NoError
                    /\ call[t].result # NilResult)
    /\ [][\A k \in CallIds :
            (send'[k] # send[k] \/ logged'[k] # logged[k]) => call' = call]_vars

C18_Witness ==
    \E k \in CallIds : \E t \in CallOf(k) :
        /\ Exhausted(k)
        /\ send[k].script = <<500, 500, 0>>
        /\ unit[k] = "done"
        /\ logged[k].err.cause = NewNetworkError("metering request failed")
        /\ Returned(t)
        /\ call[t].err = NoError

IsPrefix(a, b) == Len(a) <= Len(b) /\ SubSeq(b, 1, Len(a)) = a

\* C19 as stated: between delivery attempts the dispatcher sleeps 100 ms,
\* 200 ms and 400 ms, with no sleep before the first attempt and no sleep
\* cut short by cancellation: a delivery that used up its attempts has
\* slept these three durations.
C19_ThreeBackoffSleeps ==
    \A k \in CallIds :
        /\ send[k].requests = 0 => send[k].sleepLog = <<>>
        /\ IsPrefix(send[k].sleepLog, <<100, 200, 400>>)
        /\ Exhausted(k) => send[k].sleepLog = <<100, 200, 400>>

\* C19 amended: between delivery attempts the dispatcher sleeps with a
\* doubling backoff that starts at 100 ms: 100 ms before the second attempt
\* and 200 ms before the third; no sleep precedes the first attempt, none
\* follows the last (the next value, 400 ms, is computed but never slept),
\* and no sleep is cut short by cancellation.
C19_TwoBackoffSleeps ==
    \A k \in CallIds :
        /\ send[k].requests = 0 => send[k].sleepLog = <<>>
        /\ IsPrefix(send[k].sleepLog, <<100, 200>>)
        /\ send[k].pc = "request" => Len(send[k].sleepLog) = send[k].requests
        /\ SendDone(k) => Len(send[k].sleepLog) = send[k].requests - 1
        /\ Exhausted(k) => (send[k].sleepLog = <<100, 200>> /\ send[k].backoff = 400)

C19_Witness ==
    \E k \in CallIds : \E t \in CallOf(k) :
        /\ cctx[t]
        /\ send[k].pc = "request"
        /\ send[k].requests = 2
        /\ send[k].sleepLog = <<100, 200>>

RunningUnits == {k \in CallIds : unit[k] = "running"}
AddedCalls == {t \in Callers : call[t].pc = "added"}

\* C20: an error or a panic inside a dispatch unit is caught and logged
\* inside the unit: it never reaches the caller of the generate operation
\* and never ends the process; the counter is decremented exactly once for
\* the unit, so a later Flush is not blocked by it.
C20_FaultsStayInsideUnit ==
    /\ [](~crashed)
    /\ [](\A k \in CallIds :
            unit[k] = "done"
            => /\ send[k].pc \in {"done", "panicked"}
               /\ logged[k] =
                    IF send[k].pc = "panicked"
                    THEN [msg |-> "Metering goroutine panic", err |-> PanicValue]
                    ELSE IF send[k].err # NoError
                    THEN [msg |-> "Failed to send metering data", err |-> send[k].err]
                    ELSE NoLog
               /\ \A t \in CallOf(k) : call[t].err = NoError)
    /\ [](wg = Cardinality(RunningUnits) + Cardinality(AddedCalls))
    /\ []((flushPc = "waiting" /\ RunningUnits = {} /\ AddedCalls = {})
            => ENABLED FlushReturn)
    /\ [][\A k \in CallIds :
            (unit[k] = "running" /\ unit'[k] = "done")
            => (wg' = wg - 1 /\ call' = call)]_vars
    /\ [][\A k \in CallIds : unit[k] = "done" => (unit'[k] = "done" /\ wg' >= wg)]_vars

C20_Witness ==
    \E k \in CallIds : \E t \in CallOf(k) :
        /\ unit[k] = "done"
        /\ send[k].pc = "panicked"
        /\ logged[k].msg = "Metering goroutine panic"
        /\ Returned(t)
        /\ call[t].result # NilResult
        /\ call[t].err = NoError
        /\ flushPc = "returned"
        /\ k \in flushSeen
        /\ wg = 0

UnitStepEnabled(k) ==
    ENABLED (UnitLoopHead(k) \/ UnitSleep(k) \/ UnitRequest(k))

\* C21: cancelling the caller's context after its dispatch unit has been
\* spawned does not cancel the unit: the unit runs on a detached context, so
\* the cancellation changes nothing in the unit, every request of the unit
\* still gets the endpoint's answer, and the unit can go on to its end.
C21_UnitDetachedFromCaller ==
    /\ [](\A k \in CallIds :
            send[k].requests >= 1
            => IF ResponseAt(k, send[k].requests) = StatusOK
               THEN SendDone(k) /\ send[k].err = NoError
               ELSE send[k].lastErr =
                      sendMeteringRequest(send[k].apiKey, send[k].payload,
                                          ResponseAt(k, send[k].requests), FALSE))
    /\ [](\A k \in CallIds :
            (unit[k] = "running" /\ send[k].pc \in {"loop", "sleep", "request"})
            => UnitStepEnabled(k))
    /\ [][cctx' # cctx
            => (send' = send /\ unit' = unit /\ wg' = wg /\ logged' = logged)]_vars

C21_Witness ==
    \E k \in CallIds : \E t \in CallOf(k) :
        /\ cctx[t]
        /\ unit[k] = "done"
        /\ send[k].script = <<500, 200>>
        /\ send[k].requests = 2
        /\ send[k].err = NoError
        /\ logged[k] = NoLog

(***************************************************************************)
(* Claims about the usage record.                                          *)
(***************************************************************************)
Built == meter.pc = "built"
Metered == Built /\ meter.op # Nil

\* The numeric durations the result metadata supplies.
SuppliedDurations(metadata) ==
    {metadata[k].v :
        k \in {j \in {"duration", "durationSeconds"} \cap DOMAIN metadata :
                  metadata[j].type \in {"int", "float64"}}}

\* C22: every usage record built by buildMeteringPayload contains the
\* numeric field durationSeconds: 5.0 when the result metadata supplies no
\* duration, the metadata-supplied numeric duration otherwise, and no later
\* merge step removes or overwrites it.
C22_DurationFromMetadata ==
    Built =>
        /\ "durationSeconds" \in DOMAIN meter.payload
        /\ meter.payload["durationSeconds"].type = "float64"
        /\ IF SuppliedDurations(meter.result.Metadata) = {}
           THEN meter.payload["durationSeconds"].v = 5
           ELSE meter.payload["durationSeconds"].v
                    \in SuppliedDurations(meter.result.Metadata)

\* The four sources of a usage record's entries.
FixedEntries == AddErrorInformation(BasePayload(meter.result, meter.now), meter.result)
ResultEntries == meter.result.Metadata
CallerEntries ==
    IF meter.metadata = NilUsageMetadata THEN EmptyMap
    ELSE UsageFields(meter.metadata)
CustomEntries ==
    IF meter.metadata = NilUsageMetadata THEN EmptyMap
    ELSE meter.metadata.Custom

\* The record in which every key holds the value of the first of the given
\* sources that supplies it.
ByPrecedence(sources) ==
    [k \in UNION {DOMAIN sources[i] : i \in 1..Len(sources)} |->
        sources[CHOOSE i \in 1..Len(sources) :
                    /\ k \in DOMAIN sources[i]
                    /\ \A j \in 1..(i - 1) : k \notin DOMAIN sources[j]][k]]

\* C23: the precedence is fixed computed fields > result metadata >
\* caller-supplied identification fields > custom map entries: a key
\* supplied by several sources holds the value of the highest of them, a
\* caller-supplied field included whose key the result metadata supplies.
C23_ResultMetadataBeforeCallerFields ==
    Built => meter.payload =
        ByPrecedence(<<FixedEntries, ResultEntries, CallerEntries, CustomEntries>>)

\* C23, as the code has it: fixed computed fields > caller-supplied
\* identification fields > result metadata > custom map entries.
C23_CallerFieldsBeforeResultMetadata ==
    Built => meter.payload =
        ByPrecedence(<<FixedEntries, CallerEntries, ResultEntries, CustomEntries>>)

C23_Witness ==
    /\ Built
    /\ "organizationId" \in DOMAIN ResultEntries
    /\ "organizationId" \in DOMAIN CallerEntries
    /\ "organizationId" \in DOMAIN CustomEntries
    /\ "model" \in DOMAIN ResultEntries
    /\ meter.payload["organizationId"] = StringValue("acme")
    /\ meter.payload["model"] = StringValue("gen3a_turbo")

\* The record of the same result and caller fields without the custom map.
WithoutCustom ==
    buildMeteringPayload(meter.result,
                         [meter.metadata EXCEPT !.Custom = EmptyMap], meter.now)

\* C24: a custom-map entry never overwrites a key already present: where a
\* caller-supplied field and a custom entry have the same key the record
\* holds the caller's value, and a custom entry with a fresh key appears at
\* the top level of the record.
C24_CustomNeverOverwrites ==
    (Built /\ meter.metadata # NilUsageMetadata) =>
        \A k \in DOMAIN CustomEntries :
            /\ k \in DOMAIN meter.payload
            /\ k \in DOMAIN CallerEntries => meter.payload[k] = CallerEntries[k]
            /\ k \in DOMAIN WithoutCustom => meter.payload[k] = WithoutCustom[k]
            /\ k \notin DOMAIN WithoutCustom => meter.payload[k] = CustomEntries[k]

C24_Witness ==
    /\ Built
    /\ DOMAIN CustomEntries = {"organizationId", "tier", "durationSeconds"}
    /\ "organizationId" \in DOMAIN CallerEntries
    /\ meter.payload["organizationId"] = StringValue("acme")
    /\ meter.payload["tier"] = StringValue("gold")
    /\ meter.payload["durationSeconds"] = Float64Value(5)

\* The stop reason the terminal statuses map to.
StopReasonOf(status) ==
    CASE status = TaskStatusSucceeded -> "END"
      [] status = TaskStatusFailed -> "ERROR"
      [] status = TaskStatusCanceled -> "CANCELLED"

\* C25: the stopReason of the usage record is determined by the terminal
\* status of the result: SUCCEEDED gives END, FAILED gives ERROR, CANCELED
\* gives CANCELLED, for every result passed to buildMeteringPayload.
C25_StopReasonByStatus ==
    (Built /\ meter.result.Status \in TerminalStatuses) =>
        meter.payload["stopReason"] =
            StringValue(StopReasonOf(meter.result.Status))

\* C25, as the code has it: a result that carries an error message gives
\* ERROR whatever its status; without one the terminal status decides.
C25_StopReasonByErrorThenStatus ==
    (Built /\ meter.result.Status \in TerminalStatuses) =>
        meter.payload["stopReason"] =
            IF meter.result.Error # Nil THEN StringValue("ERROR")
            ELSE StringValue(StopReasonOf(meter.result.Status))

C25_Witness ==
    /\ Built
    /\ meter.result.Status = TaskStatusCanceled
    /\ meter.result.Error # Nil
    /\ meter.payload["stopReason"] = StringValue("ERROR")
    /\ meter.payload["errorReason"] = StringValue(meter.result.Error)

\* C27: for ImageToVideo and VideoToVideo the requested duration the
\* orchestrator stores for metering (req.Duration when positive, else 5) is
\* the duration billed: durationSeconds of the usage record equals it.
C27_RequestedDurationIsBilled ==
    (Metered /\ meter.op \in {"ImageToVideo", "VideoToVideo"}) =>
        /\ meter.result.Metadata["requestedDuration"] =
              IntValue(IF meter.asked.Duration > 0 THEN meter.asked.Duration ELSE 5)
        /\ meter.payload["durationSeconds"].v =
              meter.result.Metadata["requestedDuration"].v

\* C28: with the model unset ImageToVideo and VideoToVideo use gen3a_turbo
\* and UpscaleVideo uses upscale; a model the caller set is left unchanged;
\* the creation request, the result and the usage record carry the model
\* used.
C28_ModelUsedEverywhere ==
    Metered =>
        LET used == IF meter.asked.Model # "" THEN meter.asked.Model
                    ELSE IF meter.op = "UpscaleVideo" THEN "upscale"
                    ELSE "gen3a_turbo"
        IN  /\ meter.created.Model = used
            /\ meter.result.Model = used
            /\ meter.payload["model"] = StringValue(used)

C28_Witness ==
    /\ Metered
    /\ meter.op = "UpscaleVideo"
    /\ meter.asked.Model = ""
    /\ meter.created.Model = "upscale"
    /\ meter.payload["model"] = StringValue("upscale")
(***************************************************************************)
(* Claims about repeated delivery.                                         *)
(***************************************************************************)
\* The attempts of delivery k made so far that the endpoint accepted.
AcceptedAttempts(k) ==
    {i \in 1..send[k].requests : ResponseAt(k, i) \in AcceptingResponses}

\* C26: all delivery attempts of one dispatch sequence send the identical
\* payload, built once and without an idempotency key, so the endpoint
\* stores one copy of it per accepted attempt: when an attempt was accepted
\* but its acknowledgment was lost, which the dispatcher takes for a
\* retryable failure, a following accepted attempt delivers the same record
\* a second time.
C26_RetriesResendSamePayload ==
    \A k \in CallIds :
        /\ \A n \in 1..Len(ledger[k]) : ledger[k][n] = send[k].payload
        /\ Len(ledger[k]) = Cardinality(AcceptedAttempts(k))
        /\ \A i \in 1..send[k].requests :
              ResponseAt(k, i) = AckLost =>
                  /\ send[k].lastErr = NewNetworkError("metering request failed")
                     \/ send[k].requests > i
                  /\ SendDone(k) /\ send[k].requests = i => i = maxRetries
        /\ \A i, j \in AcceptedAttempts(k) :
              i < j => /\ ResponseAt(k, i) = AckLost
                       /\ Len(ledger[k]) >= 2
                       /\ ledger[k][1] = ledger[k][2]

C26_Witness ==
    \E k \in CallIds :
        /\ send[k].script = <<AckLost, StatusOK>>
        /\ SendDone(k)
        /\ send[k].err = NoError
        /\ send[k].payload["transactionId"] = StringValue(TaskIdOf(k))
        /\ ledger[k] = <<send[k].payload, send[k].payload>>
(***************************************************************************)
(* Claims about Initialize.                                                *)
(***************************************************************************)
OptionFields(opts) == {opts[i].field : i \in 1..Len(opts)}
OptionValue(opts, field) ==
    opts[CHOOSE i \in 1..Len(opts) : opts[i].field = field].value

\* C30: Initialize called with options uses the option-supplied values and
\* environment loading fills only the fields the options did not provide,
\* so Initialize with both API keys supplied as options succeeds and
\* configures the client with them even when the environment variables are
\* unset.
C30_OptionsSurviveEnvLoading ==
    (lastInit.called /\ lastInit.ran) =>
        /\ \A field \in OptionFields(lastInit.opts) :
              lastInit.cfg[field] = OptionValue(lastInit.opts, field)
        /\ \A field \in {"RunwayAPIKey", "ReveniumAPIKey", "RunwayBaseURL",
                         "ReveniumBaseURL"} \ OptionFields(lastInit.opts) :
              lastInit.cfg[field] = LoadFromEnv(ZeroConfig, lastInit.env)[field]
        /\ {"RunwayAPIKey", "ReveniumAPIKey"} \subseteq OptionFields(lastInit.opts)
              => lastInit.err = NoError
(***************************************************************************)
(* Claims about Close and Reset.                                           *)
(***************************************************************************)
SeenUnitsDone == \A k \in closer.seen : unit[k] = "done"

\* C29: Close waits for all dispatch units of the client pending at its
\* call before it closes the underlying clients and returns; Reset, which closes the
\* global client, returns only after the outstanding dispatch units of the
\* global client have finished, and only then drops the client.
C29_CloseWaitsForUnits ==
    /\ [](closer.pc \in {"closing", "returned"} => SeenUnitsDone)
    /\ [][(closer'.closed /\ ~closer.closed) => SeenUnitsDone']_vars
    /\ [][(glob.client # NilClient /\ glob'.client = NilClient)
            => (closer.via = "Reset" /\ closer'.closed /\ SeenUnitsDone'
                /\ ~glob'.initialized /\ glob'.mu = "free")]_vars
    /\ [](glob.mu = "Reset" => closer.pc \in {"waiting", "closing"})

C29_Witness ==
    /\ closer.pc = "returned"
    /\ closer.via = "Reset"
    /\ closer.closed
    /\ closer.seen = CallIds
    /\ \A k \in CallIds : unit[k] = "done"
    /\ glob = ZeroGlobals
(***************************************************************************)
(* Claims about the configuration functions.                               *)
(***************************************************************************)
StartsWithHak(key) == Len(key) >= 4 /\ SubSeq(key, 1, 4) = "hak_"

\* The error Validate is to return for a configuration: that of the first
\* failing check.
FirstFailingCheck(cfg) ==
    IF cfg.ReveniumAPIKey = ""
    THEN "REVENIUM_METERING_API_KEY is required"
    ELSE IF ~StartsWithHak(cfg.ReveniumAPIKey)
    THEN "invalid Revenium API key format"
    ELSE IF cfg.RunwayAPIKey = "" THEN "RUNWAY_API_KEY is required"
    ELSE Nil

\* C31: Config.Validate returns no error exactly when ReveniumAPIKey is
\* non-empty and starts with "hak_" and RunwayAPIKey is non-empty; otherwise
\* it returns a ConfigError naming the first failing check in the order
\* missing Revenium key, invalid Revenium key format, missing Runway key.
\* NewReveniumRunway returns that error, or a ConfigError for a nil config,
\* and creates no client.
C31_ValidateFirstFailingCheck ==
    /\ lastCall.fn = "Validate" =>
          IF FirstFailingCheck(lastCall.cfg) = Nil
          THEN lastCall.err = NoError
          ELSE lastCall.err =
                  [type |-> "CONFIG_ERROR", msg |-> FirstFailingCheck(lastCall.cfg)]
    /\ lastCall.fn = "NewReveniumRunway" =>
          IF lastCall.cfg = NilConfig
          THEN /\ lastCall.err.type = "CONFIG_ERROR"
               /\ lastCall.client = NilClient
          ELSE IF FirstFailingCheck(lastCall.cfg) = Nil
          THEN lastCall.err = NoError /\ lastCall.client = lastCall.cfg
          ELSE /\ lastCall.err =
                     [type |-> "CONFIG_ERROR", msg |-> FirstFailingCheck(lastCall.cfg)]
               /\ lastCall.client = NilClient

C31_Witness ==
    /\ lastCall.fn = "NewReveniumRunway"
    /\ lastCall.cfg # NilConfig
    /\ lastCall.cfg.ReveniumAPIKey = "key_hak_"
    /\ lastCall.cfg.RunwayAPIKey = ""
    /\ lastCall.err = NewConfigError("invalid Revenium API key format")
    /\ lastCall.client = NilClient

\* C32: NormalizeReveniumBaseURL maps a base URL B, and B followed by any
\* one of the suffixes "/", "/meter/v2", "/meter", "/v2", to B, and the
\* empty string to https://api.revenium.ai; for every input its result is
\* a base URL without a trailing slash.
C32_NormalizedWithoutTrailingSlash ==
    lastCall.fn = "NormalizeReveniumBaseURL" =>
        /\ lastCall.baseURL = "" => lastCall.url = "https://api.revenium.ai"
        /\ \A b \in BaseURLs :
              lastCall.baseURL \in {b} \cup {b \o s : s \in LegacySuffixes}
                  => lastCall.url = b
        /\ ~(Len(lastCall.url) >= 1
             /\ SubSeq(lastCall.url, Len(lastCall.url), Len(lastCall.url)) = "/")
(***************************************************************************)
(* Claims about the package-level client.                                  *)
(***************************************************************************)
NotInitializedError ==
    [type |-> "CONFIG_ERROR",
     msg |-> "middleware not initialized, call Initialize() first"]

\* Reset returns in this step.
ResetReturns ==
    /\ closer' # closer
    /\ closer'.via = "Reset"
    /\ closer'.pc = "returned"

\* A call of Initialize returns in this step (one that differs from the
\* call before it).
InitializeReturns == lastInit' # lastInit

\* C34: initialized is true if and only if the global client is set.
\* GetClient returns a ConfigError before a successful Initialize and after
\* Reset.  A failed Initialize leaves the state uninitialized.  Once
\* initialized, further calls of Initialize, with whatever options and
\* environment, return nil and leave the client unchanged, so between two
\* Resets at most one global client is created.
C34_OneGlobalClient ==
    /\ [](glob.initialized <=> glob.client # NilClient)
    /\ [][/\ (lastCall' # lastCall /\ lastCall'.fn = "GetClient") =>
                IF glob.initialized
                THEN lastCall'.err = NoError /\ lastCall'.client = glob.client
                ELSE /\ lastCall'.err = NotInitializedError
                     /\ lastCall'.client = NilClient
          /\ (~glob.initialized /\ glob'.initialized) =>
                /\ lastInit'.called /\ lastInit'.ran
                /\ lastInit'.err = NoError
                /\ glob'.client = lastInit'.cfg
          /\ (InitializeReturns /\ lastInit'.err # NoError) =>
                /\ ~glob.initialized
                /\ glob' = glob
          /\ (InitializeReturns /\ glob.initialized) =>
                /\ lastInit'.err = NoError
                /\ glob' = glob
          /\ (glob.initialized /\ glob'.client # glob.client) => ResetReturns
          /\ ResetReturns => ~glob'.initialized
         ]_vars

\* A second Initialize returned nil without running although the
\* environment now holds another configuration, and GetClient hands out the
\* client of the first.
C34_Witness ==
    /\ glob.initialized
    /\ glob.mu = "free"
    /\ lastInit.called
    /\ ~lastInit.ran
    /\ lastInit.err = NoError
    /\ Validate(LoadFromEnv(ZeroConfig, env)) = NoError
    /\ LoadFromEnv(ZeroConfig, env) # glob.client
    /\ lastCall.fn = "GetClient"
    /\ lastCall.err = NoError
    /\ lastCall.client = glob.client
(***************************************************************************)
(* Claims about the outstanding-work counter and the generate calls,       *)
(* checked under Spec.                                                     *)
(***************************************************************************)
\* A dispatch unit is spawned, or finishes, in this step.
SpawnsIn(k) == unit[k] = "none" /\ unit'[k] = "running"
FinishesIn(k) == unit[k] = "running" /\ unit'[k] = "done"

\* C33 as stated: in every reachable state the outstanding-work counter
\* equals the number of dispatch units spawned and not yet finished.
C33_CounterEqualsRunningUnits == wg = Cardinality(RunningUnits)

\* C33, amended: in every reachable state the outstanding-work counter
\* equals the number of dispatch units spawned and not yet finished plus
\* the number of generate calls that have incremented it and not yet
\* started their unit.  It is never negative, is incremented exactly once
\* for each spawn (in the step before the spawn), is decremented exactly
\* once per completion and in that step, changes in no other step, and is
\* zero when every unit has finished and no call stands between increment
\* and spawn.
C33_CounterEqualsRunningPlusAdded ==
    /\ [](/\ wg = Cardinality(RunningUnits) + Cardinality(AddedCalls)
          /\ wg >= 0
          /\ (RunningUnits = {} /\ AddedCalls = {}) => wg = 0)
    /\ [][/\ (\E k \in CallIds : FinishesIn(k)) <=> wg' = wg - 1
          /\ (\E t \in Callers : call[t].pc = "built" /\ call'[t].pc = "added")
                <=> wg' = wg + 1
          /\ wg' \in {wg - 1, wg, wg + 1}
          /\ \A k \in CallIds : SpawnsIn(k) =>
                /\ wg' = wg
                /\ \E t \in Callers : call[t].pc = "added" /\ call[t].id = k
         ]_vars

\* One unit runs, the other caller has incremented the counter and not yet
\* started its unit.
C33_Witness ==
    /\ Cardinality(RunningUnits) = 1
    /\ Cardinality(AddedCalls) = 1
    /\ wg = 2
\* C40: every generate call (ImageToVideo, VideoToVideo, UpscaleVideo)
\* returns exactly one of a non-nil result and a non-nil error, never both
\* and never neither; a dispatch unit is spawned in exactly the runs that
\* return a result.
C40_ResultOrErrorAndUnitIffResult ==
    \A t \in Callers :
        /\ Returned(t) =>
              /\ call[t].op \in Operations
              /\ (call[t].result # NilResult) # (call[t].err # NoError)
              /\ (call[t].result # NilResult) <=> (spawned[call[t].id] = 1)
              /\ (call[t].err # NoError) <=> (unit[call[t].id] = "none")
        /\ (call[t].id # 0 /\ unit[call[t].id] # "none") =>
              (call[t].result # NilResult /\ call[t].err = NoError)

\* One call returned a result and its unit was spawned,
\* the other returned an error and no unit was spawned for it.
C40_Witness ==
    \E t, u \in Callers :
        /\ Returned(t) /\ Returned(u)
        /\ call[t].result # NilResult /\ call[t].err = NoError
        /\ call[t].result.Status = TaskStatusSucceeded
        /\ spawned[call[t].id] = 1
        /\ call[u].result = NilResult /\ call[u].err = ErrPollTimeout
        /\ spawned[call[u].id] = 0
(***************************************************************************)
(* Claims about the poller's sleeps and cancellation, checked under        *)
(* SpecPoll.                                                               *)
(***************************************************************************)
\* The poller takes a step from position pc.
PollStepFrom(pc) == poll.pc = pc /\ poll' # poll

\* C38: after a failed status lookup the poller sleeps for the current
\* interval and leaves the interval unchanged; the interval changes only in
\* the sleep after a successful lookup that returned a non-terminal status.
C38_FailedLookupKeepsInterval ==
    [][/\ PollStepFrom("sleep_err") =>
             /\ poll'.interval = poll.interval
             /\ poll'.elapsed = poll.elapsed + poll.interval
             /\ poll'.sleeps = poll.sleeps + 1
             /\ poll'.pc = "check"
       /\ (PollStepFrom("lookup")
              /\ (pctx \/ SourceAt(poll.script, poll.lookups + 1) = LookupFailed)) =>
             poll'.pc = "sleep_err"
       /\ (poll.pc # "idle" /\ poll'.interval # poll.interval) =>
             /\ poll.pc = "sleep"
             /\ poll.lookups >= 1
             /\ SourceAt(poll.script, poll.lookups) \in NonTerminalStatuses
      ]_vars

\* The second of three lookups failed: two sleeps of the initial interval,
\* then one of the grown interval.
C38_Witness ==
    /\ poll.policy = ReadmePollingConfig
    /\ ~pctx
    /\ poll.lookups = 3
    /\ poll.sleeps = 3
    /\ SourceAt(poll.script, 1) = TaskStatusRunning
    /\ SourceAt(poll.script, 2) = LookupFailed
    /\ SourceAt(poll.script, 3) = TaskStatusRunning
    /\ poll.lat = 0
    /\ poll.elapsed = poll.policy.InitialInterval
                         + 2 * NextInterval(poll.policy.InitialInterval, poll.policy)

\* C39: the poll loop observes cancellation only at its loop-entry checks.
\* A cancellation that arrives during a sleep or a lookup does not
\* interrupt the sleep (a lookup on the cancelled context fails and is
\* followed by a full sleep like any failed lookup); the loop returns at its
\* next loop entry, and after that loop entry no further status lookup is
\* made.
C39_CancellationActedOnAtLoopEntry ==
    /\ [][/\ (pctx /\ (PollStepFrom("sleep") \/ PollStepFrom("sleep_err"))) =>
                /\ poll'.pc = "check"
                /\ poll'.elapsed = poll.elapsed + poll.interval
                /\ poll'.lookups = poll.lookups
          /\ (pctx /\ PollStepFrom("lookup")) => poll'.pc = "sleep_err"
          /\ (pctx /\ PollStepFrom("check")) =>
                /\ poll'.pc = "done"
                /\ poll'.lookups = poll.lookups
                /\ poll'.err \in {ErrPollTimeout, ErrMaxAttempts, CtxErr}
          /\ (poll.pc # "done" /\ poll'.pc = "done" /\ poll'.err = CtxErr) =>
                /\ poll.pc = "check"
                /\ pctx
          /\ poll.pc = "done" => poll' = poll
         ]_vars
    /\ []((poll.pc = "done" /\ poll.err = CtxErr) => poll.lookups = poll.attempts - 1)

\* The one lookup succeeded with a non-terminal status on a live context,
\* the sleep after it ran its full length, and the second loop entry
\* returned the context's error.
C39_Witness ==
    /\ poll.pc = "done"
    /\ pctx
    /\ poll.err = CtxErr
    /\ poll.policy = ReadmePollingConfig
    /\ poll.lookups = 1
    /\ poll.attempts = 2
    /\ poll.sleeps = 1
    /\ SourceAt(poll.script, 1) = TaskStatusRunning
    /\ poll.interval = NextInterval(poll.policy.InitialInterval, poll.policy)
    /\ poll.interval # poll.policy.InitialInterval
    /\ poll.elapsed = poll.lat + poll.policy.InitialInterval
(***************************************************************************)
(* Claims about what the retry loop retries, checked under SpecRetry.      *)
(***************************************************************************)
\* Delivery k has something to send: a key, and a record json can encode.
CanSend(k) ==
    /\ send[k].apiKey # ""
    /\ \A key \in DOMAIN send[k].payload : send[k].payload[key] # ChanValue

\* How attempt i of delivery k ends: accepted, refused with a 4xx status,
\* or failed in any other way.
AttemptKind(k, i) ==
    IF CanSend(k) /\ ResponseAt(k, i) >= 200 /\ ResponseAt(k, i) < 300 THEN "accepted"
    ELSE IF CanSend(k) /\ ResponseAt(k, i) >= 400 /\ ResponseAt(k, i) < 500
    THEN "refused"
    ELSE "failed"

\* The error of a failed attempt i of delivery k.
AttemptFailure(k, i) ==
    IF send[k].apiKey = ""
    THEN [type |-> "CONFIG_ERROR", msg |-> "Revenium API key not configured"]
    ELSE IF ~CanSend(k)
    THEN [type |-> "METERING_ERROR", msg |-> "failed to marshal metering payload",
          cause |-> MarshalError]
    ELSE IF ResponseAt(k, i) = TransportFailure
    THEN [type |-> "NETWORK_ERROR", msg |-> "metering request failed"]
    ELSE [type |-> "METERING_ERROR", msg |-> "metering API error",
          cause |-> StatusError(ResponseAt(k, i))]

\* C37: only a validation failure (a 4xx status) stops the retry loop
\* early.  Every other failure of an attempt, a 1xx or 3xx status, a
\* payload that cannot be marshalled and the ConfigError of a client
\* without Revenium API key included, is retried until 3 attempts have
\* been made, and is then reported as a MeteringError that wraps the last
\* failure.
C37_OnlyValidationStopsRetrying ==
    \A k \in CallIds :
        /\ \A i \in 1..send[k].requests :
              /\ i < send[k].requests => AttemptKind(k, i) = "failed"
              /\ (AttemptKind(k, i) = "failed" /\ i < maxRetries) =>
                    ~SendDone(k) \/ send[k].requests > i
        /\ (SendDone(k) /\ send[k].err # NoError /\ send[k].requests < maxRetries) =>
              /\ IsValidationError(send[k].err)
              /\ AttemptKind(k, send[k].requests) = "refused"
        /\ (SendDone(k) /\ AttemptKind(k, send[k].requests) = "failed") =>
              /\ send[k].requests = maxRetries
              /\ send[k].sleepLog = <<100, 200>>
              /\ send[k].err =
                    [type |-> "METERING_ERROR", msg |-> "metering failed after retries",
                     cause |-> AttemptFailure(k, maxRetries)]

\* A client without key has made its three attempts, sleeping between
\* them, and returns the MeteringError that wraps the ConfigError.
C37_Witness ==
    \E k \in CallIds :
        /\ SendDone(k)
        /\ send[k].apiKey = ""
        /\ send[k].script = <<StatusOK>>
        /\ send[k].requests = 3
        /\ send[k].sleepLog = <<100, 200>>
        /\ send[k].err =
              NewMeteringError("metering failed after retries",
                               NewConfigError("Revenium API key not configured"))
        /\ ledger[k] = <<>>

\* Other reachable cases of C37: a redirect and an informational status
\* are retried, and so is a record that cannot be marshalled.
C37_RedirectRetried ==
    \E k \in CallIds :
        /\ SendDone(k)
        /\ send[k].script = <<StatusFound, StatusSwitchingProtocols, StatusFound>>
        /\ send[k].err.cause.cause = StatusError(StatusFound)

C37_MarshalFailureRetried ==
    \E k \in CallIds :
        /\ SendDone(k)
        /\ send[k].apiKey # ""
        /\ ~Marshalable(send[k].payload)
        /\ send[k].requests = 3
(***************************************************************************)
(* Termination of the poller, checked under SpecPollFair.                  *)
(***************************************************************************)
AttemptBudget == IF poll.policy.MaxAttempts > 0 THEN poll.policy.MaxAttempts ELSE 0

\* C35: WaitForTaskCompletion terminates for every status source, one that
\* never reports a terminal status and one whose lookups always fail
\* included: the attempt counter grows by one in every iteration and the
\* loop ends at the latest in the iteration in which the counter exceeds
\* maxAttempts; with maxAttempts <= 0 that is the first iteration, before
\* any lookup.
C35_PollerTerminates ==
    /\ (poll.pc # "idle") ~> (poll.pc = "done")
    /\ [][PollStepFrom("check") => poll'.attempts = poll.attempts + 1]_vars
    /\ [][(poll.pc # "idle" /\ poll'.attempts # poll.attempts)
             => PollStepFrom("check")]_vars
    /\ [](poll.pc \notin {"idle", "done"} =>
             /\ poll.attempts <= AttemptBudget
             /\ poll.lookups <= poll.attempts)
    /\ [](poll.pc = "done" =>
             /\ poll.attempts <= AttemptBudget + 1
             /\ poll.lookups <= AttemptBudget
             /\ poll.policy.MaxAttempts <= 0 => (poll.lookups = 0 /\ poll.attempts = 1))

\* A source that always fails, and one that never reports a terminal
\* status, were polled to the end of the attempt budget.
C35_Witness ==
    /\ poll.pc = "done"
    /\ ~pctx
    /\ poll.policy = SmallPollingConfig(MaxSmallAttempts)
    /\ poll.attempts = MaxSmallAttempts + 1
    /\ poll.lookups = MaxSmallAttempts
    /\ poll.err = ErrMaxAttempts
    /\ AlwaysFailing(poll.script) \/ AlwaysRunning(poll.script)
(***************************************************************************)
(* Termination of the dispatch units, checked under SpecDispatchFair.      *)
(***************************************************************************)
\* C36: every dispatch unit terminates whatever the accounting endpoint
\* answers, after at most 3 attempts and the sleeps between them, so a
\* Flush that is called when no further generate calls are started
\* eventually returns.  (A running unit leaves that state only by
\* finishing and a waiting Flush only by returning, so each is stated as:
\* again and again the unit is not running, the Flush not waiting.)
C36_UnitsTerminateAndFlushReturns ==
    /\ \A k \in CallIds : []<>(unit[k] # "running")
    /\ [][\A k \in CallIds :
            unit[k] = "running" => unit'[k] \in {"running", "done"}]_vars
    /\ []<>(flushPc # "waiting")
    /\ [][flushPc = "waiting" => flushPc' \in {"waiting", "returned"}]_vars
    /\ [](\A k \in CallIds :
            /\ send[k].requests <= maxRetries
            /\ Len(send[k].sleepLog) <= maxRetries - 1
            /\ Len(send[k].sleepLog) <= send[k].requests)

\* A Flush that began while a unit was running has returned, after the
\* unit made three attempts that the endpoint answered with failures.
C36_Witness ==
    \E k \in flushSeen :
        /\ flushPc = "returned"
        /\ unit[k] = "done"
        /\ send[k].requests = maxRetries
        /\ send[k].sleepLog = <<100, 200>>
        /\ send[k].err # NoError
====
